---- MODULE Spec2Model ----
(***************************************************************************)
(* The CSS-to-spell transmutation engine of grimoire-css-transmutator      *)
(* (src/src/lib.rs): the token-driven scan loop process_css_into_raw_spells*)
(* with its per-invocation ParserState, the declaration scan of a rule     *)
(* body, generate_spells_map, merge_maps, the recursive invocation for an  *)
(* @media block and the two public entry points.                           *)
(*                                                                         *)
(* A string is a sequence of one-character strings, so that concatenation, *)
(* trimming, replacing and slicing are computed as the code computes them. *)
(* Option<T> is <<>> (None) or <<x>> (Some(x)).  A map is a function whose *)
(* domain is its key set.                                                  *)
(***************************************************************************)
EXTENDS Integers, Sequences, FiniteSets, TLC

VARIABLES
    stack,   \* call stack of process_css_into_raw_spells invocations (top = last)
    out,     \* what the public entry point returned, or "running"
    oracle,  \* answers Spell::new has given so far (a pure function of the name)
    last,    \* the values the last handler computed on its way (observation only)
    input,   \* the stylesheet: an example's tokens, or free: any tokens up to MaxTokens
    ntok,    \* tokens consumed so far
    mm,      \* operands and results of merge_maps applied to arbitrary maps
    runs,    \* invocations of the entry point still to make, and what the earlier ones returned
    cli,     \* the command line program (src/src/main.rs): arguments, Config, where the output went
    files    \* read_and_clean_files: the files' contents and the text returned

vars == <<stack, out, oracle, last, input, ntok, mm, runs, cli, files>>

----------------------------------------------------------------------------
(* Bounds *)

\* tokens of an unconstrained input
MaxTokens == 3
\* declarations-or-fragments in the body of a rule of an unconstrained input
MaxBodyItems == 1
\* distinct spells a value set of the merge operands is drawn from
MaxMergeSpells == 2
\* arguments on the command line
MaxArgs == 3
\* files given to read_and_clean_files
MaxFiles == 2
\* characters in a file
MaxFileLen == 4

----------------------------------------------------------------------------
(* Strings *)

None == <<>>
Some(x) == <<x>>

Range(s) == { s[i] : i \in 1..Len(s) }

\* char::is_whitespace, restricted to the characters the inputs use
WhiteSpace == {" ", "\t", "\n"}

RECURSIVE Join(_)
\* Vec<String>::join("")
Join(ss) == IF ss = <<>> THEN <<>> ELSE Head(ss) \o Join(Tail(ss))

RECURSIVE TrimStart(_)
TrimStart(s) ==
    IF s # <<>> /\ Head(s) \in WhiteSpace THEN TrimStart(Tail(s)) ELSE s

RECURSIVE TrimEnd(_)
TrimEnd(s) ==
    IF s # <<>> /\ s[Len(s)] \in WhiteSpace
    THEN TrimEnd(SubSeq(s, 1, Len(s) - 1))
    ELSE s

\* str::trim
Trim(s) == TrimEnd(TrimStart(s))

\* str::replace(" ", "_")
ReplaceSpaces(s) == [i \in 1..Len(s) |-> IF s[i] = " " THEN "_" ELSE s[i]]

\* remove_last_char with the bug of returning the string whole
remove_last_char_Whole(s) == s

\* remove_last_char: the empty string stays empty
remove_last_char(s) == IF s = <<>> THEN s ELSE SubSeq(s, 1, Len(s) - 1)

\* &text[from..to] with byte positions counted from 0
Slice(text, from, to) == SubSeq(text, from + 1, to)

----------------------------------------------------------------------------
(* Tokens.  text is the source text up to the end of the token (leading    *)
(* white space included), tail the text the tokenizer skips after a block  *)
(* opener (the block's content and its closer), body the tokens of a curly *)
(* block's content.                                                        *)

Tok(kind, text, name, tail, body) ==
    [kind |-> kind, text |-> text, name |-> name, tail |-> tail, body |-> body]

Ident(text, name) == Tok("Ident", text, name, <<>>, <<>>)
AtKeyword(text, name) == Tok("AtKeyword", text, name, <<>>, <<>>)
Delim(text, d) == Tok("Delim", text, d, <<>>, <<>>)
Colon(text) == Tok("Colon", text, <<":">>, <<>>, <<>>)
Comma(text) == Tok("Comma", text, <<",">>, <<>>, <<>>)
Semicolon(text) == Tok("Semicolon", text, <<";">>, <<>>, <<>>)
SquareBracketBlock(text, tail) == Tok("SquareBracketBlock", text, <<>>, tail, <<>>)
Function(text, name, tail) == Tok("Function", text, name, tail, <<>>)
ParenthesisBlock(text, tail) == Tok("ParenthesisBlock", text, <<>>, tail, <<>>)
CurlyBracketBlock(text, body, tail) == Tok("CurlyBracketBlock", text, <<>>, tail, body)
CloseCurlyBracket(text) == Tok("CloseCurlyBracket", text, <<>>, <<>>, <<>>)

RECURSIVE SourceText(_)
\* the source text a token sequence was lexed from
SourceText(toks) ==
    IF toks = <<>> THEN <<>>
    ELSE Head(toks).text \o SourceText(Head(toks).body) \o Head(toks).tail
         \o SourceText(Tail(toks))

----------------------------------------------------------------------------
(* Maps *)

EmptyMap == [k \in {} |-> {}]

\* HashMap::entry(key).or_default().push(value)
PushEntry(m, key, value) ==
    IF key \in DOMAIN m
    THEN [m EXCEPT ![key] = Append(@, value)]
    ELSE [k \in DOMAIN m \cup {key} |-> IF k = key THEN <<value>> ELSE m[k]]

\* HashMap::insert(key, value)
Insert(m, key, value) ==
    [k \in DOMAIN m \cup {key} |-> IF k = key THEN value ELSE m[k]]

----------------------------------------------------------------------------
(* ParserState and the pure helpers of the engine *)

\* ParserState::default()
DefaultState ==
    [raw_classes_spells_map |-> EmptyMap,
     current_class |-> <<>>,
     started_media_pos |-> None,
     focus |-> <<>>,
     component_and_component_target_map |-> {},
     effects |-> <<>>,
     class_started |-> FALSE,
     focus_delim |-> <<>>,
     effect_started |-> FALSE,
     colons |-> <<>>,
     area |-> None]

\* the raw spell prefix of the accumulated focus: "" or "{focus_str}"
BaseRawSpell(focus) ==
    LET focus_str == ReplaceSpaces(Trim(Join(focus)))
    IN  IF focus_str = <<>> THEN <<>> ELSE <<"{">> \o focus_str \o <<"}">>

\* CollapseColons with the bug of keeping a run of any length
CollapseColons_KeepRun(colons) == colons

\* if colons.len() > 2 { colons = vec![":", ":"] }
CollapseColons(colons) ==
    IF Len(colons) > 2 THEN << <<":">>, <<":">> >> ELSE colons

RECURSIVE SpellsOf_SkipEmptyPrefix(_, _)
\* SpellsOf with the bug of generating nothing for an empty prefix
SpellsOf_SkipEmptyPrefix(prefixes, components) ==
    IF prefixes = <<>> THEN {}
    ELSE (IF Head(prefixes) = <<>> THEN {}
          ELSE { Head(prefixes) \o component : component \in components })
         \cup SpellsOf_SkipEmptyPrefix(Tail(prefixes), components)

RECURSIVE SpellsOf(_, _)
\* the inner loops of generate_spells_map: every prefix with every component
SpellsOf(prefixes, components) ==
    IF prefixes = <<>> THEN {}
    ELSE { IF Head(prefixes) = <<>> THEN component ELSE Head(prefixes) \o component
            : component \in components }
         \cup SpellsOf(Tail(prefixes), components)

generate_spells_map(state) ==
    [class \in DOMAIN state.raw_classes_spells_map |->
        SpellsOf(state.raw_classes_spells_map[class],
                 state.component_and_component_target_map)]

RECURSIVE MergeLoop(_, _, _)
\* the loop of merge_maps over the entries of map2 that are still to visit
MergeLoop(map1, map2, keys) ==
    IF keys = {} THEN map1
    ELSE LET key == CHOOSE k \in keys : TRUE
             merged == IF key \in DOMAIN map1
                       THEN [map1 EXCEPT ![key] = @ \cup map2[key]]
                       ELSE Insert(map1, key, map2[key])
         IN  MergeLoop(merged, map2, keys \ {key})

\* merge_maps with the bug of replacing the set of a key map1 already has
merge_maps_Overwrite(map1, map2) ==
    [k \in DOMAIN map1 \cup DOMAIN map2 |->
        IF k \in DOMAIN map2 THEN map2[k] ELSE map1[k]]

\* merge_maps with the bug of dropping the keys map1 does not have yet
merge_maps_NoInsert(map1, map2) ==
    [k \in DOMAIN map1 |->
        IF k \in DOMAIN map2 THEN map1[k] \cup map2[k] ELSE map1[k]]

\* merge_maps(&mut map1, map2): the value of map1 afterwards
merge_maps(map1, map2) == MergeLoop(map1, map2, DOMAIN map2)

----------------------------------------------------------------------------
(* The token handlers of process_css_into_raw_spells, as functions of the  *)
(* ParserState                                                             *)

\* IdentStep with the bug of the pseudo rule taking precedence over a
\* pending combinator
IdentStep_PseudoFirst(ps, ident) ==
    IF ps.class_started /\ ps.current_class = <<>>
    THEN [ps EXCEPT !.current_class = ident, !.class_started = FALSE]
    ELSE IF ps.effect_started
    THEN LET colons == IF Len(ps.colons) > 2 THEN << <<":">>, <<":">> >> ELSE ps.colons
             focus_item == Join(colons) \o ident
         IN  [ps EXCEPT
                !.focus = Append(@, focus_item),
                !.effects = Append(@, ident),
                !.effect_started = FALSE,
                !.colons = <<>>,
                !.current_class = IF @ = <<>> THEN focus_item ELSE @]
    ELSE IF ps.focus_delim # <<>>
    THEN [ps EXCEPT
            !.focus = Append(@, (IF ps.focus = <<>> THEN <<>> ELSE <<"_">>)
                                \o ps.focus_delim \o <<"_">> \o ident),
            !.focus_delim = <<>>]
    ELSE IF ps.current_class # <<>>
    THEN [ps EXCEPT !.focus = Append(@, <<"_">> \o ident)]
    ELSE [ps EXCEPT !.current_class = ident]

\* Token::Ident
IdentStep(ps, ident) ==
    IF ps.class_started /\ ps.current_class = <<>>
    THEN [ps EXCEPT !.current_class = ident, !.class_started = FALSE]
    ELSE IF ps.focus_delim # <<>>
    THEN LET prefix == IF ps.focus = <<>> THEN <<>> ELSE <<"_">>
         IN  [ps EXCEPT
                !.focus = Append(@, prefix \o ps.focus_delim \o <<"_">> \o ident),
                !.focus_delim = <<>>]
    ELSE IF ps.effect_started
    THEN LET colons == CollapseColons(ps.colons)
             focus_item == Join(colons) \o ident
         IN  [ps EXCEPT
                !.focus = Append(@, focus_item),
                !.effects = Append(@, ident),
                !.effect_started = FALSE,
                !.colons = <<>>,
                !.current_class = IF @ = <<>> THEN focus_item ELSE @]
    ELSE IF ps.current_class # <<>>
    THEN [ps EXCEPT !.focus = Append(@, <<"_">> \o ident)]
    ELSE [ps EXCEPT !.current_class = ident]

\* AtKeywordStep with the bug of taking every at-keyword for @media
AtKeywordStep_AnyName(ps, name) ==
    [ps EXCEPT !.started_media_pos = Some(0)]

\* Token::AtKeyword: the position recorded is the start of the text kept in src
AtKeywordStep(ps, name) ==
    IF name = <<"m", "e", "d", "i", "a">>
    THEN [ps EXCEPT !.started_media_pos = Some(0)]
    ELSE ps

\* ClassStartStep with the bug of flushing whenever a class name is
\* accumulated, a combinator pending or not
ClassStartStep_IgnoreCombinator(ps) ==
    IF ps.current_class # <<>>
    THEN [ps EXCEPT
            !.class_started = TRUE,
            !.raw_classes_spells_map =
                PushEntry(@, ps.current_class, BaseRawSpell(ps.focus)),
            !.focus = <<>>,
            !.effects = <<>>,
            !.current_class = <<>>,
            !.focus_delim = <<>>]
    ELSE [ps EXCEPT !.class_started = TRUE]

\* Token::Delim(".")
ClassStartStep(ps) ==
    IF ps.current_class # <<>> /\ ps.focus_delim = <<>>
    THEN [ps EXCEPT
            !.class_started = TRUE,
            !.raw_classes_spells_map =
                PushEntry(@, ps.current_class, BaseRawSpell(ps.focus)),
            !.focus = <<>>,
            !.effects = <<>>,
            !.current_class = <<>>,
            !.focus_delim = <<>>]
    ELSE [ps EXCEPT !.class_started = TRUE]

\* StarStep with the bug of appending "*" to focus whether focus is empty or not
StarStep_AlwaysLeading(ps) ==
    [ps EXCEPT
       !.focus = Append(@, <<"*">>),
       !.current_class = IF @ = <<>> THEN <<"*">> ELSE @]

\* Token::Delim("*")
StarStep(ps) ==
    IF ps.focus = <<>>
    THEN [ps EXCEPT
            !.focus = Append(@, <<"*">>),
            !.current_class = IF @ = <<>> THEN <<"*">> ELSE @]
    ELSE [ps EXCEPT !.focus_delim = <<"*">>]

\* Token::Delim(d): d is one character, so the arms ":" and "::" never match a
\* token (the tokenizer gives a colon as Token::Colon)
DelimStep(ps, d) ==
    IF d = <<".">> THEN ClassStartStep(ps)
    ELSE IF d \in {<<":">>, <<":", ":">>, <<">">>, <<"+">>, <<"~">>}
    THEN [ps EXCEPT !.focus_delim = d]
    ELSE IF d = <<"*">> THEN StarStep(ps)
    ELSE ps

\* Token::Colon
ColonStep(ps) ==
    [ps EXCEPT !.effect_started = TRUE, !.colons = Append(@, <<":">>)]

\* Token::Comma
CommaStep(ps) ==
    IF ps.focus # <<>>
    THEN LET withDelim == IF ps.focus_delim # <<>>
                          THEN Append(ps.focus, ps.focus_delim)
                          ELSE ps.focus
         IN  [ps EXCEPT !.focus = Append(withDelim, <<",">>), !.focus_delim = <<>>]
    ELSE [ps EXCEPT
            !.raw_classes_spells_map =
                PushEntry(@, ps.current_class, BaseRawSpell(ps.focus)),
            !.focus = <<>>,
            !.effects = <<>>,
            !.current_class = <<>>,
            !.class_started = FALSE,
            !.focus_delim = <<>>]

\* Token::SquareBracketBlock: tail is the text from after "[" through "]"
SquareStep(ps, tail) ==
    [ps EXCEPT !.focus = Append(@, <<"[">> \o tail)]

\* FunctionStep with the bug of leaving the colons of the run in place
FunctionStep_KeepColons(ps, name, tail) ==
    IF ps.effect_started
    THEN [ps EXCEPT
            !.focus = Append(@, Join(CollapseColons(ps.colons)) \o name \o <<"(">> \o tail),
            !.effects = Append(@, name),
            !.effect_started = FALSE]
    ELSE ps

\* Token::Function: tail is the text from after "(" through ")"
FunctionStep(ps, name, tail) ==
    IF ps.effect_started
    THEN [ps EXCEPT
            !.focus = Append(@, Join(CollapseColons(ps.colons)) \o name \o <<"(">> \o tail),
            !.effects = Append(@, name),
            !.effect_started = FALSE,
            !.colons = <<>>]
    ELSE ps

----------------------------------------------------------------------------
(* The rule body: oracle check, flush, declaration scan, generation, reset *)

RECURSIVE DeclLoop(_, _, _, _, _, _)
\* the loop of the closure given to parse_nested_block for a rule body.
\* text is the body's source text, pos the tokenizer position before the
\* next token; a slice whose start lies after its end panics.
DeclLoop(toks, text, pos, start_decl_pos, colon_pos, components) ==
    IF toks = <<>> THEN [panic |-> FALSE, components |-> components]
    ELSE LET inner_token == Head(toks)
             here == pos + Len(inner_token.text)
             next == here + Len(SourceText(inner_token.body)) + Len(inner_token.tail)
         IN  IF inner_token.kind = "Colon"
             THEN DeclLoop(Tail(toks), text, next, start_decl_pos, here, components)
             ELSE IF inner_token.kind = "Semicolon"
             THEN IF start_decl_pos > colon_pos
                  THEN [panic |-> TRUE, components |-> components]
                  ELSE LET component ==
                               Trim(remove_last_char(Slice(text, start_decl_pos, colon_pos)))
                           target == Trim(remove_last_char(Slice(text, colon_pos, here)))
                           spell == ReplaceSpaces(component \o <<"=">> \o target)
                       IN  DeclLoop(Tail(toks), text, next, here, colon_pos,
                                    components \cup {spell})
             ELSE DeclLoop(Tail(toks), text, next, start_decl_pos, colon_pos, components)

\* DeclScan with the bug of closing the last declaration at the end of the
\* block as a semicolon would
DeclScan_ClosesLast(ps, body) ==
    DeclLoop(body \o << Semicolon(<<";">>) >>, SourceText(body) \o <<";">>, 0, 0, 0,
             ps.component_and_component_target_map)

\* the declarations of a rule body, added to those the state holds
DeclScan(ps, body) ==
    DeclLoop(body, SourceText(body), 0, 0, 0, ps.component_and_component_target_map)

\* the raw spell pushed when a rule body opens: the focus, wrapped by the area
RuleRawSpell(ps) ==
    IF ps.area # None
    THEN ps.area[1] \o <<"_", "_">> \o BaseRawSpell(ps.focus)
    ELSE BaseRawSpell(ps.focus)

\* RuleFlush with the bug of flushing nothing for an empty class name
RuleFlush_OnlyNamed(ps) ==
    IF ps.current_class = <<>> THEN ps
    ELSE [ps EXCEPT !.raw_classes_spells_map =
                        PushEntry(@, ps.current_class, RuleRawSpell(ps))]

\* the state after the flush at the opening of a rule body
RuleFlush(ps) ==
    [ps EXCEPT !.raw_classes_spells_map =
                    PushEntry(@, ps.current_class, RuleRawSpell(ps))]

\* RuleReset with the bug of leaving focus and effects to the next rule
RuleReset_KeepFocus(ps) ==
    [ps EXCEPT
        !.raw_classes_spells_map = EmptyMap,
        !.current_class = <<>>,
        !.component_and_component_target_map = {},
        !.class_started = FALSE,
        !.focus_delim = <<>>]

\* the per-rule reset after a curly block that is not an @media body
RuleReset(ps) ==
    [ps EXCEPT
        !.raw_classes_spells_map = EmptyMap,
        !.current_class = <<>>,
        !.component_and_component_target_map = {},
        !.effects = <<>>,
        !.focus = <<>>,
        !.class_started = FALSE,
        !.focus_delim = <<>>]

\* the @media branch: the area cut out of the text since the at-keyword
MediaArea(slice) == ReplaceSpaces(Trim(remove_last_char(slice)))

----------------------------------------------------------------------------
(* The public entry points, after the engine has returned *)

Orderings(S) ==
    { p \in [1..Cardinality(S) -> S] : \A x \in S : \E i \in DOMAIN p : p[i] = x }

\* JoinWith with the bug of leaving the separator out
JoinWith_NoSeparator(ss, sep) == Join(ss)

RECURSIVE JoinWith(_, _)
\* Vec<String>::join(sep)
JoinWith(ss, sep) ==
    IF ss = <<>> THEN <<>>
    ELSE IF Len(ss) = 1 THEN Head(ss)
    ELSE Head(ss) \o sep \o JoinWith(Tail(ss), sep)

\* one TransmutedClass; spells_vec is the set's iteration order
TransmutedClass(name, spells_vec, include_oneliner) ==
    [name |-> name,
     spells |-> spells_vec,
     oneliner |-> IF include_oneliner THEN Some(JoinWith(spells_vec, <<" ">>)) ELSE None]

\* EntryOutcomes with the bug of keeping the entry with the empty name
EntryOutcomes_KeepEmptyName(entry, processed_css, include_oneliner) ==
    IF DOMAIN processed_css = {}
    THEN {[status |-> "Err", entry |-> entry, error |-> "InvalidInput", scrolls |-> {}]}
    ELSE LET names == DOMAIN processed_css
             orders == [names -> UNION { Orderings(processed_css[m]) : m \in names }]
         IN  { [status |-> "Ok", entry |-> entry, error |-> "",
                scrolls |-> { TransmutedClass(n, o[n], include_oneliner) : n \in names }]
               : o \in { f \in orders : \A n \in names : f[n] \in Orderings(processed_css[n]) } }

\* the outcomes of an entry point for the map the engine returned: an error
\* for an empty map, else the scrolls of the entries whose name is not empty,
\* each with its spells in some iteration order of the set
EntryOutcomes(entry, processed_css, include_oneliner) ==
    IF DOMAIN processed_css = {}
    THEN {[status |-> "Err", entry |-> entry, error |-> "InvalidInput", scrolls |-> {}]}
    ELSE LET names == { n \in DOMAIN processed_css : n # <<>> }
             orders == [names -> UNION { Orderings(processed_css[m]) : m \in names }]
         IN  { [status |-> "Ok", entry |-> entry, error |-> "",
                scrolls |-> { TransmutedClass(n, o[n], include_oneliner) : n \in names }]
               : o \in { f \in orders : \A n \in names : f[n] \in Orderings(processed_css[n]) } }

----------------------------------------------------------------------------
(* Inputs: the spec's example stylesheets, token by token, and the tokens  *)
(* an unconstrained input is made of                                       *)

\* the body " color: red; " without its closer
DeclColorRed ==
    << Ident(<<" ", "c", "o", "l", "o", "r">>, <<"c", "o", "l", "o", "r">>),
       Colon(<<":">>),
       Ident(<<" ", "r", "e", "d">>, <<"r", "e", "d">>),
       Semicolon(<<";">>) >>

\* the body " color: blue; " without its closer
DeclColorBlue ==
    << Ident(<<" ", "c", "o", "l", "o", "r">>, <<"c", "o", "l", "o", "r">>),
       Colon(<<":">>),
       Ident(<<" ", "b", "l", "u", "e">>, <<"b", "l", "u", "e">>),
       Semicolon(<<";">>) >>

\* .button { color: red; }
ExBasic ==
    << Delim(<<".">>, <<".">>),
       Ident(<<"b", "u", "t", "t", "o", "n">>, <<"b", "u", "t", "t", "o", "n">>),
       CurlyBracketBlock(<<" ", "{">>,
        DeclColorRed,
        <<" ", "}">>) >>

\* .a:hover, .b { color: red; }
ExComma ==
    << Delim(<<".">>, <<".">>),
       Ident(<<"a">>, <<"a">>),
       Colon(<<":">>),
       Ident(<<"h", "o", "v", "e", "r">>, <<"h", "o", "v", "e", "r">>),
       Comma(<<",">>),
       Delim(<<" ", ".">>, <<".">>),
       Ident(<<"b">>, <<"b">>),
       CurlyBracketBlock(<<" ", "{">>,
        DeclColorRed,
        <<" ", "}">>) >>

\* .a { color: blue; }
RuleA ==
    << Delim(<<" ", ".">>, <<".">>),
       Ident(<<"a">>, <<"a">>),
       CurlyBracketBlock(<<" ", "{">>,
        DeclColorBlue,
        <<" ", "}">>) >>

\* .a, .b { color: blue; }
RuleAB ==
    << Delim(<<" ", ".">>, <<".">>),
       Ident(<<"a">>, <<"a">>),
       Comma(<<",">>),
       Delim(<<" ", ".">>, <<".">>),
       Ident(<<"b">>, <<"b">>),
       CurlyBracketBlock(<<" ", "{">>,
        DeclColorBlue,
        <<" ", "}">>) >>

\* @media (min-width: 700px) { .a { color: blue; } }
ExMedia ==
    << AtKeyword(<<"@", "m", "e", "d", "i", "a">>, <<"m", "e", "d", "i", "a">>),
       ParenthesisBlock(<<" ", "(">>, <<"m", "i", "n", "-", "w", "i", "d", "t", "h", ":", " ", "7", "0", "0", "p", "x", ")">>),
       CurlyBracketBlock(<<" ", "{">>,
        RuleA,
        <<" ", "}">>) >>

\* @media (min-width: 700px) { .a, .b { color: blue; } }
ExMediaComma ==
    << AtKeyword(<<"@", "m", "e", "d", "i", "a">>, <<"m", "e", "d", "i", "a">>),
       ParenthesisBlock(<<" ", "(">>, <<"m", "i", "n", "-", "w", "i", "d", "t", "h", ":", " ", "7", "0", "0", "p", "x", ")">>),
       CurlyBracketBlock(<<" ", "{">>,
        RuleAB,
        <<" ", "}">>) >>

\* .a { color: red }
ExNoSemicolon ==
    << Delim(<<".">>, <<".">>),
       Ident(<<"a">>, <<"a">>),
       CurlyBracketBlock(<<" ", "{">>,
        << Ident(<<" ", "c", "o", "l", "o", "r">>, <<"c", "o", "l", "o", "r">>),
       Colon(<<":">>),
       Ident(<<" ", "r", "e", "d">>, <<"r", "e", "d">>) >>,
        <<" ", "}">>) >>

\* .s > :hover { color: red; } .b span { color: blue; }
ExSkip ==
    << Delim(<<".">>, <<".">>),
       Ident(<<"s">>, <<"s">>),
       Delim(<<" ", ">">>, <<">">>),
       Colon(<<" ", ":">>),
       Ident(<<"h", "o", "v", "e", "r">>, <<"h", "o", "v", "e", "r">>),
       CurlyBracketBlock(<<" ", "{">>,
        DeclColorRed,
        <<" ", "}">>),
       Delim(<<" ", ".">>, <<".">>),
       Ident(<<"b">>, <<"b">>),
       Ident(<<" ", "s", "p", "a", "n">>, <<"s", "p", "a", "n">>),
       CurlyBracketBlock(<<" ", "{">>,
        DeclColorBlue,
        <<" ", "}">>) >>

\* the body " margin: 0 auto;" without its closer
DeclMargin ==
    << Ident(<<" ", "m", "a", "r", "g", "i", "n">>, <<"m", "a", "r", "g", "i", "n">>),
       Colon(<<":">>),
       Tok("Number", <<" ", "0">>, <<>>, <<>>, <<>>),
       Ident(<<" ", "a", "u", "t", "o">>, <<"a", "u", "t", "o">>),
       Semicolon(<<";">>) >>

\* .a:hover.a { color: red; margin: 0 auto; }
ExTwoPrefixes ==
    << Delim(<<".">>, <<".">>),
       Ident(<<"a">>, <<"a">>),
       Colon(<<":">>),
       Ident(<<"h", "o", "v", "e", "r">>, <<"h", "o", "v", "e", "r">>),
       Delim(<<".">>, <<".">>),
       Ident(<<"a">>, <<"a">>),
       CurlyBracketBlock(<<" ", "{">>,
        DeclColorRed \o DeclMargin,
        <<" ", "}">>) >>

\* the declarations a basic rule is made of: property, value and tokens
Decls ==
    { [p |-> <<"c", "o", "l", "o", "r">>, v |-> <<"r", "e", "d">>, toks |-> DeclColorRed],
      [p |-> <<"m", "a", "r", "g", "i", "n">>, v |-> <<"0", " ", "a", "u", "t", "o">>, toks |-> DeclMargin] }

DeclSeqs == {<<>>} \cup { <<d>> : d \in Decls } \cup { <<d, e>> : d, e \in Decls }

BasicNames == { <<"a">>, <<"s">>, <<"b", "u", "t", "t", "o", "n">> }

\* .c { p1: v1; ... pn: vn; }
BasicRule(c, ds) ==
    << Delim(<<".">>, <<".">>),
       Ident(c, c),
       CurlyBracketBlock(<<" ", "{">>, Join([i \in 1..Len(ds) |-> ds[i].toks]), <<" ", "}">>) >>

BasicRules == { BasicRule(c, ds) : c \in BasicNames, ds \in DeclSeqs }

\* " .b { color: red; }", following other rules
RuleB ==
    << Delim(<<" ", ".">>, <<".">>),
       Ident(<<"b">>, <<"b">>),
       CurlyBracketBlock(<<" ", "{">>,
        DeclColorRed,
        <<" ", "}">>) >>

\* " .s { color: blue; }"
RuleS ==
    << Delim(<<" ", ".">>, <<".">>),
       Ident(<<"s">>, <<"s">>),
       CurlyBracketBlock(<<" ", "{">>,
        DeclColorBlue,
        <<" ", "}">>) >>

\* @media (min-width: 700px) { .a { color: blue; } } .b { color: red; }
ExMediaThenRule == ExMedia \o RuleB

\* .button { color: red; } @media (min-width: 700px) { .s { color: blue; } }
ExMediaErr ==
    ExBasic \o
    << AtKeyword(<<" ", "@", "m", "e", "d", "i", "a">>, <<"m", "e", "d", "i", "a">>),
       ParenthesisBlock(<<" ", "(">>, <<"m", "i", "n", "-", "w", "i", "d", "t", "h", ":", " ", "7", "0", "0", "p", "x", ")">>),
       CurlyBracketBlock(<<" ", "{">>,
        RuleS,
        <<" ", "}">>) >>

\* @media (x) { @media (y) { .a { color: blue; } } .b { color: red; } }
ExNestedMedia ==
    << AtKeyword(<<"@", "m", "e", "d", "i", "a">>, <<"m", "e", "d", "i", "a">>),
       ParenthesisBlock(<<" ", "(">>, <<"x", ")">>),
       CurlyBracketBlock(<<" ", "{">>,
        << AtKeyword(<<" ", "@", "m", "e", "d", "i", "a">>, <<"m", "e", "d", "i", "a">>),
           ParenthesisBlock(<<" ", "(">>, <<"y", ")">>),
           CurlyBracketBlock(<<" ", "{">>,
            RuleA,
            <<" ", "}">>) >> \o RuleB,
        <<" ", "}">>) >>

\* .c { p1: v1; ... pn: vn; p: v }: the last declaration has no semicolon
OpenRule(c, ds, d) ==
    << Delim(<<".">>, <<".">>),
       Ident(c, c),
       CurlyBracketBlock(<<" ", "{">>,
        Join([i \in 1..Len(ds) |-> ds[i].toks]) \o SubSeq(d.toks, 1, Len(d.toks) - 1),
        <<" ", "}">>) >>

OpenRules == { OpenRule(c, ds, d) : c \in BasicNames, ds \in DeclSeqs, d \in Decls }

\* @media screen and (x) { .a { color: blue; } } .b { color: red; }
ExMediaScreen ==
    << AtKeyword(<<"@", "m", "e", "d", "i", "a">>, <<"m", "e", "d", "i", "a">>),
       Ident(<<" ", "s", "c", "r", "e", "e", "n">>, <<"s", "c", "r", "e", "e", "n">>),
       Ident(<<" ", "a", "n", "d">>, <<"a", "n", "d">>),
       ParenthesisBlock(<<" ", "(">>, <<"x", ")">>),
       CurlyBracketBlock(<<" ", "{">>,
        RuleA,
        <<" ", "}">>) >> \o RuleB

\* .a { p: v:w; }
ExColonValue ==
    << Delim(<<".">>, <<".">>),
       Ident(<<"a">>, <<"a">>),
       CurlyBracketBlock(<<" ", "{">>,
        << Ident(<<" ", "p">>, <<"p">>),
           Colon(<<":">>),
           Ident(<<" ", "v">>, <<"v">>),
           Colon(<<":">>),
           Ident(<<"w">>, <<"w">>),
           Semicolon(<<";">>) >>,
        <<" ", "}">>) >>

\* .a { color: red;; }
ExTwoSemicolons ==
    << Delim(<<".">>, <<".">>),
       Ident(<<"a">>, <<"a">>),
       CurlyBracketBlock(<<" ", "{">>,
        DeclColorRed \o << Semicolon(<<";">>) >>,
        <<" ", "}">>) >>

\* .a, .b.s { color: red; }
ExSkipEarlier ==
    << Delim(<<".">>, <<".">>),
       Ident(<<"a">>, <<"a">>),
       Comma(<<",">>),
       Delim(<<" ", ".">>, <<".">>),
       Ident(<<"b">>, <<"b">>),
       Delim(<<".">>, <<".">>),
       Ident(<<"s">>, <<"s">>),
       CurlyBracketBlock(<<" ", "{">>,
        DeclColorRed,
        <<" ", "}">>) >>

\* .a:::hover { color: red; }
ExThreeColons ==
    << Delim(<<".">>, <<".">>),
       Ident(<<"a">>, <<"a">>),
       Colon(<<":">>),
       Colon(<<":">>),
       Colon(<<":">>),
       Ident(<<"h", "o", "v", "e", "r">>, <<"h", "o", "v", "e", "r">>),
       CurlyBracketBlock(<<" ", "{">>,
        DeclColorRed,
        <<" ", "}">>) >>

\* @x .a & f(x) (y) 7 "t" #h } { color: red; }
ExIgnored ==
    << AtKeyword(<<"@", "x">>, <<"x">>),
       Delim(<<" ", ".">>, <<".">>),
       Ident(<<"a">>, <<"a">>),
       Delim(<<" ", "&">>, <<"&">>),
       Function(<<" ", "f", "(">>, <<"f">>, <<"x", ")">>),
       ParenthesisBlock(<<" ", "(">>, <<"y", ")">>),
       Tok("Number", <<" ", "7">>, <<>>, <<>>, <<>>),
       Tok("QuotedString", <<" ", "\"", "t", "\"">>, <<"t">>, <<>>, <<>>),
       Tok("IDHash", <<" ", "#", "h">>, <<"h">>, <<>>, <<>>),
       CloseCurlyBracket(<<" ", "}">>),
       CurlyBracketBlock(<<" ", "{">>,
        DeclColorRed,
        <<" ", "}">>) >>

Examples ==
    {ExBasic, ExComma, ExMedia, ExMediaComma, ExNoSemicolon, ExSkip, ExTwoPrefixes,
     ExMediaThenRule, ExMediaErr, ExNestedMedia, ExMediaScreen, ExColonValue,
     ExTwoSemicolons, ExSkipEarlier, ExThreeColons, ExIgnored}
    \cup BasicRules \cup OpenRules

\* the pieces a rule body of an unconstrained input is made of:
\* " p: v;"   "q :w x ;"   " p: v" (no semicolon)   ";" (no declaration)
BodyItems ==
    { << Ident(<<" ", "p">>, <<"p">>), Colon(<<":">>), Ident(<<" ", "v">>, <<"v">>), Semicolon(<<";">>) >>,
      << Ident(<<"q">>, <<"q">>), Colon(<<" ", ":">>), Ident(<<"w">>, <<"w">>), Ident(<<" ", "x">>, <<"x">>), Semicolon(<<" ", ";">>) >>,
      << Ident(<<" ", "p">>, <<"p">>), Colon(<<":">>), Ident(<<" ", "v">>, <<"v">>) >>,
      << Semicolon(<<";">>) >> }

RECURSIVE BodiesUpTo(_)
BodiesUpTo(n) ==
    IF n = 0 THEN {<<>>}
    ELSE BodiesUpTo(n - 1) \cup { b \o item : b \in BodiesUpTo(n - 1), item \in BodyItems }

\* the tokens an unconstrained input may continue with; the content of the
\* block of an @media rule is read by the nested invocation, token by token
FreeTokens(ps) ==
    { Ident(<<" ", "a">>, <<"a">>),
      Ident(<<"s">>, <<"s">>),
      AtKeyword(<<"@", "m", "e", "d", "i", "a">>, <<"m", "e", "d", "i", "a">>),
      AtKeyword(<<"@", "x">>, <<"x">>),
      Delim(<<".">>, <<".">>),
      Delim(<<" ", ">">>, <<">">>),
      Delim(<<"*">>, <<"*">>),
      Delim(<<"&">>, <<"&">>),
      Colon(<<":">>),
      Comma(<<",">>),
      SquareBracketBlock(<<"[">>, <<"x", "]">>),
      Function(<<"f", "(">>, <<"f">>, <<"x", ")">>),
      ParenthesisBlock(<<" ", "(">>, <<"x", ":", " ", "1", ")">>) }
    \cup (IF ps.started_media_pos # None
          THEN { CurlyBracketBlock(<<" ", "{">>, <<>>, <<"}">>) }
          ELSE { CurlyBracketBlock(<<" ", "{">>, body, <<"}">>) : body \in BodiesUpTo(MaxBodyItems) })

----------------------------------------------------------------------------
(* State *)

\* one invocation of process_css_into_raw_spells: its ParserState, its result
\* map, the source text read since started_media_pos (positions are counted
\* from there; text before it is never sliced), the tokens still to read, and
\* the ParserState at the last rule boundary
Frame(ps, rest) ==
    [ps |-> ps, result |-> EmptyMap, src |-> <<>>, rest |-> rest, mark |-> ps]

Top == stack[Len(stack)]

Running == out.status = "running" /\ stack # <<>>

SetTop(frame) == [stack EXCEPT ![Len(stack)] = frame]

NoOut ==
    [status |-> "running", entry |-> "", error |-> "", scrolls |-> {},
     processed_css |-> None, include_oneliner |-> FALSE]

\* what a handler leaves to observe: the ParserState before it (pre), the
\* ParserState when generate_spells_map ran (mid), the map then generated or
\* merged in (gen), the names the oracle was asked about, and its answer
Observe(kind, pre, mid, gen, asked, answer) ==
    [kind |-> kind, pre |-> pre, mid |-> mid, gen |-> gen, asked |-> asked,
     answer |-> answer]

NoMerge == [state |-> "none", a |-> EmptyMap, b |-> EmptyMap, c |-> EmptyMap,
            ab |-> EmptyMap, ba |-> EmptyMap, aa |-> EmptyMap,
            ab_c |-> EmptyMap, a_bc |-> EmptyMap]

\* no further invocation of the entry point is to be made
NoRuns == [queue |-> <<>>, results |-> <<>>]

\* the command line program is not run
NoCli == [state |-> "none"]

\* read_and_clean_files is not called
NoFiles == [state |-> "none"]

Init ==
    /\ \E toks \in {<<>>} \cup Examples :
          /\ input = [free |-> toks = <<>>, toks |-> toks]
          /\ stack = << Frame(DefaultState, toks) >>
    /\ out = NoOut
    /\ oracle = EmptyMap
    /\ last = Observe("init", DefaultState, DefaultState, EmptyMap, <<>>, "")
    /\ ntok = 0
    /\ mm = NoMerge
    /\ runs = NoRuns
    /\ cli = NoCli
    /\ files = NoFiles

\* the token parser.next() may return now
NextTokens ==
    IF input.free
    THEN IF ntok < MaxTokens THEN FreeTokens(Top.ps) ELSE {}
    ELSE IF Top.rest # <<>> THEN {Head(Top.rest)} ELSE {}

\* AtEnd with the bug of the end of input never being reported
AtEnd_Never == FALSE

\* parser.next() may fail now: the input of this invocation is exhausted
AtEnd == input.free \/ Top.rest = <<>>

\* the frame once tok is read and its handler has left the ParserState ps
Advance(frame, tok, ps) ==
    [frame EXCEPT
        !.ps = ps,
        !.rest = IF input.free THEN <<>> ELSE Tail(@),
        !.src = IF ps.started_media_pos = None THEN <<>>
                ELSE @ \o tok.text \o SourceText(tok.body) \o tok.tail]

\* a handler that only changes the ParserState
Handle(tok, ps) ==
    /\ stack' = SetTop(Advance(Top, tok, ps))
    /\ last' = Observe(tok.kind, Top.ps, ps, EmptyMap, <<>>, "")
    /\ ntok' = ntok + 1
    /\ UNCHANGED <<out, oracle, input, mm, runs, cli, files>>

----------------------------------------------------------------------------
(* The oracle Spell::new(name, ..): a pure function of the name, outside   *)
(* this repository.  Its answer for a name is chosen when the name is      *)
(* first asked about and kept; only the names of SpellCandidates may be    *)
(* recognized as a spell (Ok(Some)) or rejected with an error (Err).       *)

SpellCandidates == { <<"s">> }

OracleAnswers(name) ==
    IF name \in DOMAIN oracle THEN {oracle[name]}
    ELSE IF name \in SpellCandidates THEN {"None", "Some", "Err"}
    ELSE {"None"}

Remember(name, answer) ==
    IF name \in SpellCandidates THEN Insert(oracle, name, answer) ELSE oracle

----------------------------------------------------------------------------
(* Actions: one per arm of the match in process_css_into_raw_spells *)

OnIdent ==
    /\ Running
    /\ \E tok \in NextTokens :
          /\ tok.kind = "Ident"
          /\ Handle(tok, IdentStep(Top.ps, tok.name))

OnAtKeyword ==
    /\ Running
    /\ \E tok \in NextTokens :
          /\ tok.kind = "AtKeyword"
          /\ LET ps == AtKeywordStep(Top.ps, tok.name)
                 frame == Advance(Top, tok, ps)
             IN  /\ stack' = SetTop(IF ps = Top.ps THEN frame
                                    ELSE [frame EXCEPT !.src = <<>>])
                 /\ last' = Observe(tok.kind, Top.ps, ps, EmptyMap, <<>>, "")
                 /\ ntok' = ntok + 1
                 /\ UNCHANGED <<out, oracle, input, mm, runs, cli, files>>

OnDelim ==
    /\ Running
    /\ \E tok \in NextTokens :
          /\ tok.kind = "Delim"
          /\ Handle(tok, DelimStep(Top.ps, tok.name))

OnColon ==
    /\ Running
    /\ \E tok \in NextTokens :
          /\ tok.kind = "Colon"
          /\ Handle(tok, ColonStep(Top.ps))

OnComma ==
    /\ Running
    /\ \E tok \in NextTokens :
          /\ tok.kind = "Comma"
          /\ Handle(tok, CommaStep(Top.ps))

OnSquareBracketBlock ==
    /\ Running
    /\ \E tok \in NextTokens :
          /\ tok.kind = "SquareBracketBlock"
          /\ Handle(tok, SquareStep(Top.ps, tok.tail))

OnFunction ==
    /\ Running
    /\ \E tok \in NextTokens :
          /\ tok.kind = "Function"
          /\ Handle(tok, FunctionStep(Top.ps, tok.name, tok.tail))

\* every other token: the arm _ => {}
OnOther ==
    /\ Running
    /\ \E tok \in NextTokens :
          /\ tok.kind \notin {"Ident", "AtKeyword", "Delim", "Colon", "Comma",
                              "SquareBracketBlock", "CurlyBracketBlock", "Function"}
          /\ Handle(tok, Top.ps)

\* OnMediaBlock with the bug of handing the caller's ParserState, with the
\* new area, to the nested invocation
OnMediaBlock_InheritState ==
    /\ Running
    /\ \E tok \in NextTokens :
          /\ tok.kind = "CurlyBracketBlock"
          /\ Top.ps.started_media_pos # None
          /\ LET slice == Slice(Top.src \o tok.text, Top.ps.started_media_pos[1],
                                Len(Top.src \o tok.text))
                 ps == [Top.ps EXCEPT !.area = Some(MediaArea(slice)),
                                      !.started_media_pos = None]
                 nested == IF input.free THEN <<>>
                           ELSE tok.body \o (IF tok.tail = <<>> THEN <<>>
                                             ELSE << CloseCurlyBracket(tok.tail) >>)
             IN  /\ stack' = Append(SetTop(Advance(Top, tok, ps)), Frame(ps, nested))
                 /\ last' = Observe("MediaBlock", Top.ps, ps, EmptyMap, <<>>, "")
                 /\ ntok' = ntok + 1
                 /\ UNCHANGED <<out, oracle, input, mm, runs, cli, files>>

\* Token::CurlyBracketBlock with started_media_pos set: the area is cut out,
\* and the block's text (its content and its closer) is scanned by a nested
\* invocation with a fresh ParserState holding only the area
OnMediaBlock ==
    /\ Running
    /\ \E tok \in NextTokens :
          /\ tok.kind = "CurlyBracketBlock"
          /\ Top.ps.started_media_pos # None
          /\ LET slice == Slice(Top.src \o tok.text, Top.ps.started_media_pos[1],
                                Len(Top.src \o tok.text))
                 ps == [Top.ps EXCEPT !.area = Some(MediaArea(slice)),
                                      !.started_media_pos = None]
                 nested == IF input.free THEN <<>>
                           ELSE tok.body \o (IF tok.tail = <<>> THEN <<>>
                                             ELSE << CloseCurlyBracket(tok.tail) >>)
                 state == [DefaultState EXCEPT !.area = ps.area]
             IN  /\ stack' = Append(SetTop(Advance(Top, tok, ps)), Frame(state, nested))
                 /\ last' = Observe("MediaBlock", Top.ps, ps, EmptyMap, <<>>, "")
                 /\ ntok' = ntok + 1
                 /\ UNCHANGED <<out, oracle, input, mm, runs, cli, files>>

\* MediaReturn with the bug of leaving the caller's area set
MediaReturn_KeepArea ==
    /\ Running
    /\ Len(stack) > 1
    /\ AtEnd
    /\ LET caller == stack[Len(stack) - 1]
           frame == [caller EXCEPT !.result = merge_maps(@, Top.result),
                                   !.mark = caller.ps]
       IN  /\ stack' = [SubSeq(stack, 1, Len(stack) - 1) EXCEPT ![Len(stack) - 1] = frame]
           /\ last' = Observe("MediaReturn", caller.ps, caller.ps, Top.result, <<>>, "")
           /\ UNCHANGED <<out, oracle, input, ntok, mm, runs, cli, files>>

\* MediaReturn with the bug of running the per-rule reset on the caller
MediaReturn_ResetCaller ==
    /\ Running
    /\ Len(stack) > 1
    /\ AtEnd
    /\ LET caller == stack[Len(stack) - 1]
           ps == [RuleReset(caller.ps) EXCEPT !.area = None]
           frame == [caller EXCEPT !.ps = ps,
                                   !.result = merge_maps(@, Top.result),
                                   !.mark = ps]
       IN  /\ stack' = [SubSeq(stack, 1, Len(stack) - 1) EXCEPT ![Len(stack) - 1] = frame]
           /\ last' = Observe("MediaReturn", caller.ps, ps, Top.result, <<>>, "")
           /\ UNCHANGED <<out, oracle, input, ntok, mm, runs, cli, files>>

\* the nested invocation returns Ok(result): merge, and clear the caller's area
MediaReturn ==
    /\ Running
    /\ Len(stack) > 1
    /\ AtEnd
    /\ LET caller == stack[Len(stack) - 1]
           ps == [caller.ps EXCEPT !.area = None]
           frame == [caller EXCEPT !.ps = ps,
                                   !.result = merge_maps(@, Top.result),
                                   !.mark = ps]
       IN  /\ stack' = [SubSeq(stack, 1, Len(stack) - 1) EXCEPT ![Len(stack) - 1] = frame]
           /\ last' = Observe("MediaReturn", caller.ps, ps, Top.result, <<>>, "")
           /\ UNCHANGED <<out, oracle, input, ntok, mm, runs, cli, files>>

\* OnRuleBody with the bug of the rule's map replacing the running result
\* instead of being merged into it
OnRuleBody_ReplaceResult ==
    /\ Running
    /\ \E tok \in NextTokens :
          /\ tok.kind = "CurlyBracketBlock"
          /\ Top.ps.started_media_pos = None
          /\ "None" \in OracleAnswers(Top.ps.current_class)
          /\ LET flushed == RuleFlush(Top.ps)
                 scan == DeclScan(flushed, tok.body)
                 mid == [flushed EXCEPT
                            !.component_and_component_target_map = scan.components]
                 gen == generate_spells_map(mid)
                 ps == RuleReset(mid)
                 frame == [Advance(Top, tok, ps) EXCEPT !.result = gen, !.mark = ps]
             IN  /\ IF scan.panic
                    THEN /\ stack' = <<>>
                         /\ out' = [NoOut EXCEPT !.status = "Panic"]
                    ELSE /\ stack' = SetTop(frame)
                         /\ out' = out
                 /\ last' = Observe("RuleBody", Top.ps, mid, gen,
                                    << Top.ps.current_class >>, "None")
                 /\ oracle' = Remember(Top.ps.current_class, "None")
                 /\ ntok' = ntok + 1
                 /\ UNCHANGED <<input, mm, runs, cli, files>>

\* Token::CurlyBracketBlock without a media prelude, the oracle answering
\* Ok(None): flush, scan the declarations, generate, merge, reset.  A slice
\* with its start after its end in the declaration scan panics.
OnRuleBody ==
    /\ Running
    /\ \E tok \in NextTokens :
          /\ tok.kind = "CurlyBracketBlock"
          /\ Top.ps.started_media_pos = None
          /\ "None" \in OracleAnswers(Top.ps.current_class)
          /\ LET flushed == RuleFlush(Top.ps)
                 scan == DeclScan(flushed, tok.body)
                 mid == [flushed EXCEPT
                            !.component_and_component_target_map = scan.components]
                 gen == generate_spells_map(mid)
                 ps == RuleReset(mid)
                 frame == [Advance(Top, tok, ps) EXCEPT
                              !.result = merge_maps(@, gen), !.mark = ps]
             IN  /\ IF scan.panic
                    THEN /\ stack' = <<>>
                         /\ out' = [NoOut EXCEPT !.status = "Panic"]
                    ELSE /\ stack' = SetTop(frame)
                         /\ out' = out
                 /\ last' = Observe("RuleBody", Top.ps, mid, gen,
                                    << Top.ps.current_class >>, "None")
                 /\ oracle' = Remember(Top.ps.current_class, "None")
                 /\ ntok' = ntok + 1
                 /\ UNCHANGED <<input, mm, runs, cli, files>>

\* OnRuleSkip with the bug of leaving out the reset of the raw prefixes: those
\* of the skipped rule are generated with the next rule
OnRuleSkip_KeepPrefixes ==
    /\ Running
    /\ \E tok \in NextTokens :
          /\ tok.kind = "CurlyBracketBlock"
          /\ Top.ps.started_media_pos = None
          /\ "Some" \in OracleAnswers(Top.ps.current_class)
          /\ LET ps == [RuleReset(Top.ps) EXCEPT
                           !.raw_classes_spells_map = Top.ps.raw_classes_spells_map]
             IN  /\ stack' = SetTop([Advance(Top, tok, ps) EXCEPT !.mark = ps])
                 /\ last' = Observe("RuleSkip", Top.ps, Top.ps, EmptyMap,
                                    << Top.ps.current_class >>, "Some")
                 /\ oracle' = Remember(Top.ps.current_class, "Some")
                 /\ ntok' = ntok + 1
                 /\ UNCHANGED <<out, input, mm, runs, cli, files>>

\* ... the oracle answering Ok(Some(_)): the body is not read; reset
OnRuleSkip ==
    /\ Running
    /\ \E tok \in NextTokens :
          /\ tok.kind = "CurlyBracketBlock"
          /\ Top.ps.started_media_pos = None
          /\ "Some" \in OracleAnswers(Top.ps.current_class)
          /\ LET ps == RuleReset(Top.ps)
             IN  /\ stack' = SetTop([Advance(Top, tok, ps) EXCEPT !.mark = ps])
                 /\ last' = Observe("RuleSkip", Top.ps, Top.ps, EmptyMap,
                                    << Top.ps.current_class >>, "Some")
                 /\ oracle' = Remember(Top.ps.current_class, "Some")
                 /\ ntok' = ntok + 1
                 /\ UNCHANGED <<out, input, mm, runs, cli, files>>

\* OnRuleError with the bug of ending only the nested invocation that failed:
\* its caller goes on with the result it has built so far
OnRuleError_Swallow ==
    /\ Running
    /\ \E tok \in NextTokens :
          /\ tok.kind = "CurlyBracketBlock"
          /\ Top.ps.started_media_pos = None
          /\ "Err" \in OracleAnswers(Top.ps.current_class)
          /\ stack' = IF Len(stack) > 1 THEN SubSeq(stack, 1, Len(stack) - 1) ELSE <<>>
          /\ out' = IF Len(stack) > 1 THEN out
                    ELSE [NoOut EXCEPT !.status = "Err", !.error = "Spell"]
          /\ last' = Observe("RuleError", Top.ps, Top.ps, EmptyMap,
                             << Top.ps.current_class >>, "Err")
          /\ oracle' = Remember(Top.ps.current_class, "Err")
          /\ ntok' = ntok + 1
          /\ UNCHANGED <<input, mm, runs, cli, files>>

\* ... the oracle answering Err(e): `?` returns the error through every
\* invocation to the entry point
OnRuleError ==
    /\ Running
    /\ \E tok \in NextTokens :
          /\ tok.kind = "CurlyBracketBlock"
          /\ Top.ps.started_media_pos = None
          /\ "Err" \in OracleAnswers(Top.ps.current_class)
          /\ stack' = <<>>
          /\ out' = [NoOut EXCEPT !.status = "Err", !.error = "Spell"]
          /\ last' = Observe("RuleError", Top.ps, Top.ps, EmptyMap,
                             << Top.ps.current_class >>, "Err")
          /\ oracle' = Remember(Top.ps.current_class, "Err")
          /\ ntok' = ntok + 1
          /\ UNCHANGED <<input, mm, runs, cli, files>>

\* the top-level invocation returns Ok(result) to the entry point
Return(entry) ==
    /\ Running
    /\ Len(stack) = 1
    /\ AtEnd
    /\ \E include_oneliner \in BOOLEAN :
          \E outcome \in EntryOutcomes(entry, Top.result, include_oneliner) :
             out' = [processed_css |-> Some(Top.result),
                     include_oneliner |-> include_oneliner] @@ outcome
    /\ stack' = <<>>
    /\ last' = Observe("Return", DefaultState, DefaultState, Top.result, <<>>, "")
    /\ UNCHANGED <<oracle, input, ntok, mm, runs, cli, files>>

TransmuteFromContent == Return("transmute_from_content")

RunTransmutation == Return("run_transmutation")

Next ==
    \/ OnIdent
    \/ OnAtKeyword
    \/ OnDelim
    \/ OnColon
    \/ OnComma
    \/ OnSquareBracketBlock
    \/ OnFunction
    \/ OnOther
    \/ OnMediaBlock
    \/ MediaReturn
    \/ OnRuleBody
    \/ OnRuleSkip
    \/ OnRuleError
    \/ TransmuteFromContent
    \/ RunTransmutation

Spec == Init /\ [][Next]_vars

\* the arms of the match that do not read a rule body, and the two returns
ScanStep ==
    \/ OnIdent
    \/ OnAtKeyword
    \/ OnDelim
    \/ OnColon
    \/ OnComma
    \/ OnSquareBracketBlock
    \/ OnFunction
    \/ OnOther
    \/ OnMediaBlock
    \/ MediaReturn
    \/ TransmuteFromContent
    \/ RunTransmutation

\* the arm of a CurlyBracketBlock outside a media prelude, whatever the
\* oracle answers
RuleStep == OnRuleBody \/ OnRuleSkip \/ OnRuleError

\* the next token is the body of a rule: RuleStep is enabled exactly here,
\* the oracle always having an answer
AtRuleBody ==
    /\ Running
    /\ \E tok \in NextTokens :
          tok.kind = "CurlyBracketBlock" /\ Top.ps.started_media_pos = None

\* the scan is sequential code that goes on running: it does not stop while
\* a step is possible.  Weak fairness of RuleStep is written with its
\* enabling condition AtRuleBody spelled out.
Fairness ==
    /\ WF_vars(ScanStep)
    /\ ([]<>~AtRuleBody \/ []<><<RuleStep>>_vars)

SpecLive == Init /\ [][Next]_vars /\ Fairness

----------------------------------------------------------------------------
(* The entry point called again and again by one caller: some invocation,  *)
(* then a stylesheet A, then another stylesheet, then A again.  The oracle *)
(* is the same pure function throughout.                                   *)

\* the stylesheets transmuted between the two invocations on A
Others == {ExSkip, ExMediaErr, ExNestedMedia}

\* what an invocation returned
Returned == [status |-> out.status, error |-> out.error, processed_css |-> out.processed_css]

InitTwice ==
    /\ \E toks \in {<<>>} \cup Examples :
          /\ input = [free |-> toks = <<>>, toks |-> toks]
          /\ stack = << Frame(DefaultState, toks) >>
    /\ out = NoOut
    /\ oracle = EmptyMap
    /\ last = Observe("init", DefaultState, DefaultState, EmptyMap, <<>>, "")
    /\ ntok = 0
    /\ mm = NoMerge
    /\ runs = [queue |-> <<"A", "other", "A again">>, toks |-> <<>>, results |-> <<>>]
    /\ cli = NoCli
    /\ files = NoFiles

\* the stylesheets the next invocation may be given
NextInputs ==
    IF Head(runs.queue) = "A" THEN Examples
    ELSE IF Head(runs.queue) = "other" THEN Others
    ELSE {runs.toks}

\* NextInvocation with the bug of a result map shared by all invocations
NextInvocation_SharedResult ==
    /\ out.status \in {"Ok", "Err"}
    /\ runs.queue # <<>>
    /\ \E toks \in NextInputs :
          /\ input' = [free |-> FALSE, toks |-> toks]
          /\ stack' = << [Frame(DefaultState, toks) EXCEPT
                             !.result = IF out.processed_css = None THEN EmptyMap
                                        ELSE out.processed_css[1]] >>
          /\ runs' = [queue |-> Tail(runs.queue),
                      toks |-> IF Head(runs.queue) = "A" THEN toks ELSE runs.toks,
                      results |-> IF Head(runs.queue) = "other"
                                  THEN Append(runs.results, Returned) ELSE runs.results]
    /\ out' = NoOut
    /\ last' = Observe("init", DefaultState, DefaultState, EmptyMap, <<>>, "")
    /\ ntok' = 0
    /\ UNCHANGED <<oracle, mm, cli, files>>

\* the caller calls transmute_from_content again once the last call has
\* returned: a new ParserState::default() and a new, empty result map
NextInvocation ==
    /\ out.status \in {"Ok", "Err"}
    /\ runs.queue # <<>>
    /\ \E toks \in NextInputs :
          /\ input' = [free |-> FALSE, toks |-> toks]
          /\ stack' = << Frame(DefaultState, toks) >>
          /\ runs' = [queue |-> Tail(runs.queue),
                      toks |-> IF Head(runs.queue) = "A" THEN toks ELSE runs.toks,
                      results |-> IF Head(runs.queue) = "other"
                                  THEN Append(runs.results, Returned) ELSE runs.results]
    /\ out' = NoOut
    /\ last' = Observe("init", DefaultState, DefaultState, EmptyMap, <<>>, "")
    /\ ntok' = 0
    /\ UNCHANGED <<oracle, mm, cli, files>>

NextTwice ==
    \/ Next
    \/ NextInvocation

SpecTwice == InitTwice /\ [][NextTwice]_vars

----------------------------------------------------------------------------
(* merge_maps applied to arbitrary maps *)

MergeKeys == { <<"a">>, <<"b">> }

SpellPool == << <<"x">>, <<"y">>, <<"z">>, <<"w">> >>

MergeSpells == { SpellPool[i] : i \in 1..MaxMergeSpells }

\* every map from some of the keys to sets of the spells
MergeMaps == UNION { [keys -> SUBSET MergeSpells] : keys \in SUBSET MergeKeys }

MergeInit ==
    /\ \E a \in MergeMaps, b \in MergeMaps, c \in MergeMaps :
          mm = [NoMerge EXCEPT !.state = "args", !.a = a, !.b = b, !.c = c]
    /\ input = [free |-> FALSE, toks |-> <<>>]
    /\ stack = <<>>
    /\ out = NoOut
    /\ oracle = EmptyMap
    /\ last = Observe("init", DefaultState, DefaultState, EmptyMap, <<>>, "")
    /\ ntok = 0
    /\ runs = NoRuns
    /\ cli = NoCli
    /\ files = NoFiles

MergeStep ==
    /\ mm.state = "args"
    /\ mm' = [mm EXCEPT
                !.state = "done",
                !.ab = merge_maps(mm.a, mm.b),
                !.ba = merge_maps(mm.b, mm.a),
                !.aa = merge_maps(mm.a, mm.a),
                !.ab_c = merge_maps(merge_maps(mm.a, mm.b), mm.c),
                !.a_bc = merge_maps(mm.a, merge_maps(mm.b, mm.c))]
    /\ UNCHANGED <<stack, out, oracle, last, input, ntok, runs, cli, files>>

MergeNext == MergeStep

SpecMerge == MergeInit /\ [][MergeNext]_vars

----------------------------------------------------------------------------
(* The command line, src/main.rs: parse_args, run_app and the two modes.   *)
(* cli.args is the argument vector after the program name; the library     *)
(* call and the write of the output file each succeed or fail.             *)

\* the words an argument may be: every option, an unknown option, two values
ArgWords ==
    {"-p", "--paths", "-c", "--content", "-o", "--output",
     "-l", "--with-oneliner", "-h", "--help", "-z", "x", "y"}

\* str::starts_with('-')
StartsWithDash(arg) == arg \notin {"x", "y"}

RECURSIVE ArgLists(_)
ArgLists(n) ==
    IF n = 0 THEN { <<>> }
    ELSE LET shorter == ArgLists(n - 1)
         IN  shorter \cup { Append(as, a) : as \in {s \in shorter : Len(s) = n - 1},
                                             a \in ArgWords }

DefaultOutputFile == "./grimoire/transmuted.json"

\* process_content_mode without an output path: the JSON goes to the
\* standard output and no file is written
ContentDefault == [file |-> None, stdout |-> "json", code |-> 0]

\* process_paths_mode without an output path: <cwd>/grimoire/transmuted.json
PathsDefault == [file |-> Some(DefaultOutputFile), stdout |-> "", code |-> 0]

\* write_to_file(path, json) having succeeded
Written(path) == [file |-> Some(path), stdout |-> "", code |-> 0]

\* main: Err(err) => 1, nothing written
Failed == [file |-> None, stdout |-> "", code |-> 1]

InitCli ==
    /\ \E args \in ArgLists(MaxArgs) :
          cli = [state |-> "start", args |-> args, i |-> 1,
                 mode |-> None, input |-> None, output_path |-> None,
                 include_oneliner |-> FALSE,
                 file |-> None, stdout |-> "", code |-> 0]
    /\ input = [free |-> FALSE, toks |-> <<>>]
    /\ stack = <<>>
    /\ out = NoOut
    /\ oracle = EmptyMap
    /\ last = Observe("init", DefaultState, DefaultState, EmptyMap, <<>>, "")
    /\ ntok = 0
    /\ mm = NoMerge
    /\ runs = NoRuns
    /\ files = NoFiles

CliStep(c) ==
    /\ cli' = c
    /\ UNCHANGED <<stack, out, oracle, last, input, ntok, mm, runs, files>>

\* args[i + 1] exists and is not an option: it is taken as the value
HasValue == cli.i + 1 <= Len(cli.args) /\ ~StartsWithDash(cli.args[cli.i + 1])

Value == cli.args[cli.i + 1]

\* i += 1 of the taken value, if any, and i += 1 of the loop
Skip == IF HasValue THEN cli.i + 2 ELSE cli.i + 1

InLoop == cli.state = "loop" /\ cli.i <= Len(cli.args)

\* no argument, or -h / --help anywhere: Mode::Help
ParseArgsHelp ==
    /\ cli.state = "start"
    /\ cli.args = <<>> \/ \E k \in DOMAIN cli.args : cli.args[k] \in {"-h", "--help"}
    /\ CliStep([cli EXCEPT !.state = "config", !.mode = Some("Help")])

ParseArgsBegin ==
    /\ cli.state = "start"
    /\ cli.args # <<>>
    /\ \A k \in DOMAIN cli.args : cli.args[k] \notin {"-h", "--help"}
    /\ CliStep([cli EXCEPT !.state = "loop"])

OnPathsOption ==
    /\ InLoop
    /\ cli.args[cli.i] \in {"-p", "--paths"}
    /\ CliStep([cli EXCEPT !.mode = Some("Paths"),
                           !.input = IF HasValue THEN Some(Value) ELSE @,
                           !.i = Skip])

OnContentOption ==
    /\ InLoop
    /\ cli.args[cli.i] \in {"-c", "--content"}
    /\ CliStep([cli EXCEPT !.mode = Some("Content"),
                           !.input = IF HasValue THEN Some(Value) ELSE @,
                           !.i = Skip])

OnOutputOption ==
    /\ InLoop
    /\ cli.args[cli.i] \in {"-o", "--output"}
    /\ CliStep([cli EXCEPT !.output_path = IF HasValue THEN Some(Value) ELSE @,
                           !.i = Skip])

OnOnelinerOption ==
    /\ InLoop
    /\ cli.args[cli.i] \in {"-l", "--with-oneliner"}
    /\ CliStep([cli EXCEPT !.include_oneliner = TRUE, !.i = @ + 1])

\* any other argument starting with '-': Err(InvalidInput("Unknown option"))
OnUnknownOption ==
    /\ InLoop
    /\ cli.args[cli.i] \notin {"-p", "--paths", "-c", "--content", "-o", "--output",
                              "-l", "--with-oneliner"}
    /\ StartsWithDash(cli.args[cli.i])
    /\ CliStep(Failed @@ [cli EXCEPT !.state = "exit"])

\* a plain argument: the input, if a mode is set and no input is yet
OnPlainArg ==
    /\ InLoop
    /\ ~StartsWithDash(cli.args[cli.i])
    /\ CliStep([cli EXCEPT
                   !.input = IF @ = None /\ cli.mode # None
                             THEN Some(cli.args[cli.i]) ELSE @,
                   !.i = @ + 1])

\* after the loop: the mode and the input must have been given
ParseArgsEnd ==
    /\ cli.state = "loop"
    /\ cli.i > Len(cli.args)
    /\ CliStep(IF cli.mode = None \/ cli.input = None
               THEN Failed @@ [cli EXCEPT !.state = "exit"]
               ELSE [cli EXCEPT !.state = "config"])

\* run_app, Mode::Help: the help message is printed
RunHelp ==
    /\ cli.state = "config"
    /\ cli.mode = Some("Help")
    /\ CliStep([cli EXCEPT !.state = "exit", !.stdout = "help", !.code = 0])

\* the outcome of a mode: the library call fails, or the write fails, or the
\* JSON is written to the output path, or, without one, to byDefault
ModeOutcome(byDefault) ==
    \E transmuted \in BOOLEAN, written \in BOOLEAN :
       CliStep([state |-> "exit"] @@
               (IF ~transmuted THEN Failed
                ELSE IF cli.output_path # None
                THEN IF written THEN Written(cli.output_path[1]) ELSE Failed
                ELSE IF ~written THEN Failed
                ELSE byDefault) @@ cli)

ProcessPathsMode ==
    /\ cli.state = "config"
    /\ cli.mode = Some("Paths")
    /\ ModeOutcome(PathsDefault)

ProcessContentMode ==
    /\ cli.state = "config"
    /\ cli.mode = Some("Content")
    /\ ModeOutcome(ContentDefault)

NextCli ==
    \/ ParseArgsHelp
    \/ ParseArgsBegin
    \/ OnPathsOption
    \/ OnContentOption
    \/ OnOutputOption
    \/ OnOnelinerOption
    \/ OnUnknownOption
    \/ OnPlainArg
    \/ ParseArgsEnd
    \/ RunHelp
    \/ ProcessPathsMode
    \/ ProcessContentMode

SpecCli == InitCli /\ [][NextCli]_vars

----------------------------------------------------------------------------
(* read_and_clean_files: each file is read, the matches of comment_regex   *)
(* are removed from its content, its double quotes are replaced, and the   *)
(* outcome is appended to all_contents.                                    *)

\* the characters of a file: the two of a comment mark, a double quote and
\* an ordinary one
FileChars == {"/", "*", "\"", "a"}

RECURSIVE Contents(_)
Contents(n) ==
    IF n = 0 THEN { <<>> }
    ELSE LET shorter == Contents(n - 1)
         IN  shorter \cup { Append(s, c) : s \in {t \in shorter : Len(t) = n - 1},
                                           c \in FileChars }

\* the contents of the files at paths, in path order
PathLists ==
    LET contents == Contents(MaxFileLen)
    IN  UNION { [1..n -> contents] : n \in 0..MaxFiles }

\* where the first "*/" at or after position from starts, 0 if there is none
RECURSIVE CommentClose(_, _)
CommentClose(s, from) ==
    IF from + 1 > Len(s) THEN 0
    ELSE IF s[from] = "*" /\ s[from + 1] = "/" THEN from
    ELSE CommentClose(s, from + 1)

\* (?s)/\*.*?\*/ matches at position i: "/*", the shortest text of any
\* characters, "*/"
CommentAt(s, i) ==
    /\ i + 1 <= Len(s)
    /\ s[i] = "/"
    /\ s[i + 1] = "*"
    /\ CommentClose(s, i + 2) # 0

\* comment_regex.replace_all(s, ""): the matches are found from left to
\* right, each search starting after the match before
RECURSIVE ReplaceAllFrom(_, _)
ReplaceAllFrom(s, i) ==
    IF i > Len(s) THEN <<>>
    ELSE IF CommentAt(s, i) THEN ReplaceAllFrom(s, CommentClose(s, i + 2) + 2)
    ELSE << s[i] >> \o ReplaceAllFrom(s, i + 1)

RemoveComments(s) == ReplaceAllFrom(s, 1)

\* .replace('"', "'")
ReplaceQuotes(s) == [k \in DOMAIN s |-> IF s[k] = "\"" THEN "'" ELSE s[k]]

\* what the loop appends for one file
Cleaned(content) == ReplaceQuotes(RemoveComments(content))

InitClean ==
    /\ \E paths \in PathLists :
          files = [state |-> "reading", paths |-> paths, k |-> 1,
                   all_contents |-> <<>>]
    /\ input = [free |-> FALSE, toks |-> <<>>]
    /\ stack = <<>>
    /\ out = NoOut
    /\ oracle = EmptyMap
    /\ last = Observe("init", DefaultState, DefaultState, EmptyMap, <<>>, "")
    /\ ntok = 0
    /\ mm = NoMerge
    /\ runs = NoRuns
    /\ cli = NoCli

FilesStep(f) ==
    /\ files' = f
    /\ UNCHANGED <<stack, out, oracle, last, input, ntok, mm, runs, cli>>

\* one iteration of `for path in paths`, the file being read
ReadAndCleanFile ==
    /\ files.state = "reading"
    /\ files.k <= Len(files.paths)
    /\ FilesStep([files EXCEPT
                    !.all_contents = @ \o Cleaned(files.paths[files.k]),
                    !.k = @ + 1])

\* fs::read_to_string fails: Err(Io) is returned
ReadFails ==
    /\ files.state = "reading"
    /\ files.k <= Len(files.paths)
    /\ FilesStep([files EXCEPT !.state = "Err", !.all_contents = <<>>])

\* after the loop: Ok(all_contents)
ReadAndCleanReturn ==
    /\ files.state = "reading"
    /\ files.k > Len(files.paths)
    /\ FilesStep([files EXCEPT !.state = "Ok"])

NextClean ==
    \/ ReadAndCleanFile
    \/ ReadFails
    \/ ReadAndCleanReturn

SpecClean == InitClean /\ [][NextClean]_vars

----------------------------------------------------------------------------
(* Properties *)

StartsWith(s, prefix) ==
    Len(s) >= Len(prefix) /\ SubSeq(s, 1, Len(prefix)) = prefix

Finished == out.status \in {"Ok", "Err"} /\ out.processed_css # None

\* the map with the one entry name -> spells
Single(name, spells) == [k \in {name} |-> spells]

\* C1: Cartesian completeness.  When a rule body closes, the map generated
\* has the keys of raw_classes_spells_map, and the entry of every class c is
\* exactly { p ++ d : p a prefix of c, d a declaration of the rule }: plain
\* concatenation, duplicates collapsed, an empty prefix giving d itself.
C1_CartesianCompleteness ==
    (last.kind = "RuleBody" /\ out.status # "Panic") =>
        /\ DOMAIN last.gen = DOMAIN last.mid.raw_classes_spells_map
        /\ \A c \in DOMAIN last.gen :
              last.gen[c] =
                 { p \o d : p \in Range(last.mid.raw_classes_spells_map[c]),
                            d \in last.mid.component_and_component_target_map }

\* a rule body closed for a class with an empty and a non-empty prefix and
\* two declarations: four spells
C1_Witness ==
    /\ last.kind = "RuleBody"
    /\ out.status # "Panic"
    /\ \E c \in DOMAIN last.gen :
          /\ <<>> \in Range(last.mid.raw_classes_spells_map[c])
          /\ Cardinality(Range(last.mid.raw_classes_spells_map[c])) = 2
          /\ Cardinality(last.mid.component_and_component_target_map) = 2
          /\ Cardinality(last.gen[c]) = 4

\* C2: every Comma token ends one selector alternative: it appends exactly
\* one raw-prefix entry, built from that alternative's own focus, under that
\* alternative's class name, and leaves focus, effects, current_class and
\* focus_delim empty and class_started false; so `.a:hover, .b { color: red; }`
\* yields exactly the entries a -> {"{:hover}color=red"}, b -> {"color=red"}.
C2_CommaEndsAlternative ==
    /\ last.kind = "Comma" =>
          /\ Top.ps.raw_classes_spells_map
                \in { PushEntry(last.pre.raw_classes_spells_map, last.pre.current_class,
                                prefix)
                      : prefix \in {BaseRawSpell(last.pre.focus), RuleRawSpell(last.pre)} }
          /\ Top.ps.focus = <<>>
          /\ Top.ps.effects = <<>>
          /\ Top.ps.current_class = <<>>
          /\ Top.ps.focus_delim = <<>>
          /\ ~Top.ps.class_started
    /\ (input.toks = ExComma /\ out.status # "running") =>
          /\ out.status = "Ok"
          /\ out.processed_css =
                Some([k \in {<<"a">>, <<"b">>} |->
                        IF k = <<"a">> THEN {<<"{", ":", "h", "o", "v", "e", "r", "}", "c", "o", "l", "o", "r", "=", "r", "e", "d">>} ELSE {<<"c", "o", "l", "o", "r", "=", "r", "e", "d">>}])

\* C3: whenever the map the engine returns holds no non-empty class name with
\* at least one declaration, the entry point (either of them) fails with
\* InvalidInput instead of returning JSON.
C3_EmptyResultFails ==
    Finished =>
        ((\A name \in DOMAIN out.processed_css[1] :
             name = <<>> \/ out.processed_css[1][name] = {})
         => (out.status = "Err" /\ out.error = "InvalidInput"))

\* C4: in the map a top-level invocation returns, every key maps to a
\* non-empty spell set.
C4_NoEmptySpellSet ==
    Finished => \A name \in DOMAIN out.processed_css[1] : out.processed_css[1][name] # {}

\* C5: in an invocation whose area is A, every raw prefix pushed into
\* raw_classes_spells_map (at a class-start delimiter, at a comma or at the
\* opening of a rule body) starts with A ++ "__", and so does every spell
\* generated for a rule of that invocation.
C5_AreaWrapsEveryPrefix ==
    /\ (stack # <<>> /\ Top.ps.area # None) =>
          \A c \in DOMAIN Top.ps.raw_classes_spells_map :
             \A p \in Range(Top.ps.raw_classes_spells_map[c]) :
                StartsWith(p, Top.ps.area[1] \o <<"_", "_">>)
    /\ (last.kind = "RuleBody" /\ last.pre.area # None) =>
          \A c \in DOMAIN last.gen :
             /\ \A p \in Range(last.mid.raw_classes_spells_map[c]) :
                   StartsWith(p, last.pre.area[1] \o <<"_", "_">>)
             /\ \A spell \in last.gen[c] :
                   StartsWith(spell, last.pre.area[1] \o <<"_", "_">>)

\* C6: media nesting.  On entering the body of `@media C { ... }` the area is
\* the text of C, trimmed, spaces replaced by underscores, and
\* started_media_pos is cleared; every spell of a rule directly inside the
\* block is area ++ "__" ++ qualifier prefix ++ declaration; the example
\* `@media (min-width: 700px) { .a { color: blue; } }` gives
\* a -> {"(min-width:_700px)__color=blue"}.
C6_MediaNesting ==
    /\ last.kind = "MediaBlock" =>
          /\ stack[Len(stack) - 1].ps.started_media_pos = None
          /\ Top.ps.area = stack[Len(stack) - 1].ps.area
          /\ input.toks \in {ExMedia, ExMediaComma} => Top.ps.area = Some(<<"(", "m", "i", "n", "-", "w", "i", "d", "t", "h", ":", "_", "7", "0", "0", "p", "x", ")">>)
    /\ (last.kind = "RuleBody" /\ Len(stack) > 1) =>
          LET area == stack[Len(stack) - 1].ps.area[1]
          IN  \A c \in DOMAIN last.gen :
                 \A spell \in last.gen[c] :
                    /\ StartsWith(spell, area \o <<"_", "_">>)
                    /\ \E d \in last.mid.component_and_component_target_map :
                          SubSeq(spell, Len(spell) - Len(d) + 1, Len(spell)) = d
    /\ (input.toks = ExMedia /\ out.status # "running") =>
          /\ out.status = "Ok"
          /\ out.processed_css = Some(Single(<<"a">>, {<<"(", "m", "i", "n", "-", "w", "i", "d", "t", "h", ":", "_", "7", "0", "0", "p", "x", ")">> \o <<"_", "_">> \o <<"c", "o", "l", "o", "r", "=", "b", "l", "u", "e">>}))

\* the spells of the declarations ds of a basic rule
ExpectedSpells(ds) ==
    { ReplaceSpaces(ds[i].p \o <<"=">> \o ds[i].v) : i \in 1..Len(ds) }

\* the oracle does not recognize name as a spell (and does not fail on it)
OracleNone(name) == name \notin DOMAIN oracle \/ oracle[name] = "None"

BasicRuleResult(c, ds) ==
    /\ out.status = "Ok"
    /\ out.processed_css = Some(Single(c, ExpectedSpells(ds)))
    /\ \E class \in out.scrolls :
          class.name = c /\ Range(class.spells) = ExpectedSpells(ds)

\* C7 as stated: for an input of one rule `.c { p1: v1; ... pn: vn; }` the
\* map returned has exactly one entry, named c, with the spells { pi=vi },
\* and the serialized output holds that name with those spells.
C7_BasicRule_AsStated ==
    \A c \in BasicNames, ds \in DeclSeqs :
       (input.toks = BasicRule(c, ds) /\ out.status # "running")
          => BasicRuleResult(c, ds)

\* C7, amended: ... provided the oracle does not recognize c as a spell.
C7_BasicRule ==
    \A c \in BasicNames, ds \in DeclSeqs :
       (input.toks = BasicRule(c, ds) /\ out.status # "running" /\ OracleNone(c))
          => BasicRuleResult(c, ds)

\* a basic rule with two different declarations has been transmuted
C7_Witness ==
    \E c \in BasicNames, ds \in DeclSeqs :
       /\ Len(ds) = 2
       /\ ds[1] # ds[2]
       /\ input.toks = BasicRule(c, ds)
       /\ out.status = "Ok"
       /\ Cardinality(out.processed_css[1][c]) = 2

\* C8: the oracle is asked exactly once per rule body, about the class name
\* current when the body opens, and never for an @media block or any other
\* token; when it recognizes the name, no error is raised, the result map is
\* unchanged, and the scan goes on from the ParserState it would be in had
\* the skipped rule been absent (the state at the previous rule boundary).
C8_AlreadyMigratedSkip ==
    [][ /\ last'.kind \in {"RuleBody", "RuleSkip", "RuleError"}
            => last'.asked = << Top.ps.current_class >>
        /\ last'.kind \notin {"RuleBody", "RuleSkip", "RuleError"}
            => last'.asked = <<>>
        /\ last'.kind = "RuleSkip"
            => /\ out' = out
               /\ Top'.result = Top.result
               /\ Top'.ps = Top.mark ]_vars

\* C9: merge laws, maps compared as key -> set of spells:
\* merge(A,B) = merge(B,A), merge(A,A) = A,
\* merge(merge(A,B),C) = merge(A,merge(B,C)).
C9_MergeLaws ==
    mm.state = "done" =>
        /\ mm.ab = mm.ba
        /\ mm.aa = mm.a
        /\ mm.ab_c = mm.a_bc

\* the operands share a key with different spell sets, each has a key of
\* its own side, and the third operand is not empty
C9_Witness ==
    /\ mm.state = "done"
    /\ \E k \in DOMAIN mm.a \cap DOMAIN mm.b :
          mm.a[k] # mm.b[k] /\ mm.a[k] # {} /\ mm.b[k] # {}
    /\ DOMAIN mm.c # {}
    /\ \E k \in DOMAIN mm.c : mm.c[k] # {}

\* C10: after merge_maps(A, B) the keys of A are keys(A) \cup keys(B); a key
\* of both maps to the union of the two sets, a key of B alone to B's set, a
\* key of A alone to the set it had.
C10_MergeDefinition ==
    mm.state = "done" =>
        /\ DOMAIN mm.ab = DOMAIN mm.a \cup DOMAIN mm.b
        /\ \A k \in DOMAIN mm.ab :
              mm.ab[k] = IF k \in DOMAIN mm.a /\ k \in DOMAIN mm.b
                         THEN mm.a[k] \cup mm.b[k]
                         ELSE IF k \in DOMAIN mm.b THEN mm.b[k] ELSE mm.a[k]

\* one key in both maps with different sets, another in B alone
C10_Witness ==
    /\ mm.state = "done"
    /\ \E k \in DOMAIN mm.a \cap DOMAIN mm.b :
          mm.a[k] # mm.b[k] /\ mm.a[k] # {} /\ mm.b[k] # {}
    /\ \E k \in DOMAIN mm.b \ DOMAIN mm.a : mm.b[k] # {}

\* C11 as stated: every key of the map an invocation builds and returns, at
\* any recursion level, is a non-empty selector name.
C11_KeysNonEmpty_AsStated ==
    /\ \A i \in 1..Len(stack) : <<>> \notin DOMAIN stack[i].result
    /\ Finished => <<>> \notin DOMAIN out.processed_css[1]

\* C11, amended: every key of the map is the class name that was current
\* when a raw prefix was flushed (at a class-start delimiter, at a comma, at
\* the opening of a rule body), which is the empty name when no class name
\* was collected; the empty name is kept in the map and dropped only at
\* serialization, where every name is non-empty.
C11_KeysAreFlushedClassNames ==
    /\ (last.kind \in {"Comma", "Delim"} /\ stack # <<>>) =>
          DOMAIN Top.ps.raw_classes_spells_map
             \subseteq DOMAIN last.pre.raw_classes_spells_map \cup {last.pre.current_class}
    /\ (last.kind = "RuleBody" /\ out.status # "Panic") =>
          /\ DOMAIN last.gen =
                DOMAIN last.pre.raw_classes_spells_map \cup {last.pre.current_class}
          /\ DOMAIN last.gen \subseteq DOMAIN Top.result
    /\ (Finished /\ out.status = "Ok") =>
          \A class \in out.scrolls : class.name # <<>>

\* a rule without a class name has been merged under the empty name, next to
\* a rule with a name
C11_Witness ==
    /\ last.kind = "RuleBody"
    /\ out.status # "Panic"
    /\ last.pre.current_class = <<>>
    /\ last.gen[<<>>] # {}
    /\ \E name \in DOMAIN Top.result : name # <<>> /\ Top.result[name] # {}

\* C12: all or nothing.  When the oracle fails on a rule, at the top level
\* or inside a nested invocation, every invocation ends at once and the
\* entry point returns the error, with neither a map nor scrolls; a result
\* is returned only when no step has failed.
C12_AllOrNothing ==
    /\ last.kind = "RuleError" =>
          /\ stack = <<>>
          /\ out.status = "Err"
          /\ out.error = "Spell"
    /\ (out.status \in {"Err", "Panic"} /\ out.error # "InvalidInput") =>
          /\ out.processed_css = None
          /\ out.scrolls = {}
    /\ out.status = "Ok" => \A name \in DOMAIN oracle : oracle[name] # "Err"

\* the oracle failed inside an @media block, after a rule of the top level
\* had been merged into the result
C12_Witness ==
    /\ input.toks = ExMediaErr
    /\ last.kind = "RuleError"
    /\ last.pre.area # None
    /\ out.status = "Err"

\* C13: once an @media block has been processed the caller's area is
\* cleared: a rule of the top level that follows the block gets raw prefixes
\* and spells without the area of the block, as in
\* `@media (min-width: 700px) { .a { color: blue; } } .b { color: red; }`.
C13_AreaClearedAfterMedia ==
    /\ last.kind = "MediaReturn" => Top.ps.area = None
    /\ (last.kind = "RuleBody" /\ Len(stack) = 1) =>
          /\ last.pre.area = None
          /\ LET prefixes == last.mid.raw_classes_spells_map[last.pre.current_class]
             IN  prefixes[Len(prefixes)] = BaseRawSpell(last.pre.focus)
    /\ (input.toks = ExMediaThenRule /\ out.status # "running") =>
          /\ out.status = "Ok"
          /\ out.processed_css =
                Some([k \in {<<"a">>, <<"b">>} |->
                        IF k = <<"a">>
                        THEN {<<"(", "m", "i", "n", "-", "w", "i", "d", "t", "h", ":", "_", "7", "0", "0", "p", "x", ")", "_", "_", "c", "o", "l", "o", "r", "=", "b", "l", "u", "e">>}
                        ELSE {<<"c", "o", "l", "o", "r", "=", "r", "e", "d">>}])

\* a rule of the top level has been expanded after a closed @media block
C13_Witness ==
    /\ input.toks = ExMediaThenRule
    /\ last.kind = "RuleBody"
    /\ Len(stack) = 1
    /\ last.pre.current_class = <<"b">>
    /\ DOMAIN Top.result = {<<"a">>, <<"b">>}

\* C14: serialized output.  Every entry of the output array has a non-empty
\* name; the entries of the map with the empty name are dropped, and every
\* entry with a non-empty name appears exactly once, with its spell set.
C14_SerializedEntries ==
    (Finished /\ out.status = "Ok") =>
        LET processed_css == out.processed_css[1]
        IN  /\ \A class \in out.scrolls : class.name # <<>>
            /\ { class.name : class \in out.scrolls } = DOMAIN processed_css \ {<<>>}
            /\ \A class \in out.scrolls :
                  /\ Cardinality({ other \in out.scrolls : other.name = class.name }) = 1
                  /\ Range(class.spells) = processed_css[class.name]
                  /\ Len(class.spells) = Cardinality(processed_css[class.name])

\* the map returned has an entry with the empty name and one with a name
C14_Witness ==
    /\ Finished
    /\ out.status = "Ok"
    /\ <<>> \in DOMAIN out.processed_css[1]
    /\ out.processed_css[1][<<>>] # {}
    /\ \E class \in out.scrolls : class.spells # <<>>

RECURSIVE SpaceJoined(_)
\* the strings of ss in their order, one space between two neighbours
SpaceJoined(ss) ==
    IF ss = <<>> THEN <<>>
    ELSE SpaceJoined(SubSeq(ss, 1, Len(ss) - 1))
            \o (IF Len(ss) > 1 THEN <<" ">> ELSE <<>>) \o ss[Len(ss)]

\* C15: an output entry has the oneliner field exactly when the
\* include-oneliner option is enabled, and the field then is the entry's
\* spells array joined, in the array's order, with a single space.
C15_Oneliner ==
    (Finished /\ out.status = "Ok") =>
        \A class \in out.scrolls :
           /\ (class.oneliner # None) <=> out.include_oneliner
           /\ class.oneliner # None => class.oneliner[1] = SpaceJoined(class.spells)

\* an entry with two spells has been serialized with its oneliner
C15_Witness ==
    /\ Finished
    /\ out.status = "Ok"
    /\ out.include_oneliner
    /\ \E class \in out.scrolls : Len(class.spells) = 2 /\ class.oneliner # None

\* C16: a declaration with no terminating semicolon is dropped silently.  For
\* a rule `.c { p1: v1; ... pn: vn; p: v }` (the oracle not recognizing c)
\* the last declaration gives no spell, the declarations terminated before
\* it are extracted unchanged, the rule is merged into the result under c,
\* and no error or abort occurs.
C16_UnterminatedDeclarationDropped ==
    \A c \in BasicNames, ds \in DeclSeqs, d \in Decls :
       (input.toks = OpenRule(c, ds, d) /\ out.status # "running" /\ OracleNone(c))
          => /\ out.status = "Ok"
             /\ out.processed_css = Some(Single(c, ExpectedSpells(ds)))

\* a rule with a terminated declaration and a different unterminated one
\* has been transmuted
C16_Witness ==
    \E c \in BasicNames, ds \in DeclSeqs, d \in Decls :
       /\ Len(ds) = 1
       /\ ds[1] # d
       /\ input.toks = OpenRule(c, ds, d)
       /\ out.status = "Ok"
       /\ out.processed_css[1][c] = ExpectedSpells(ds)

\* C17: the engine is stateless across invocations.  Two invocations on the
\* same stylesheet with the same oracle return equal results, whatever ran
\* before and in between; every invocation, of the entry point and for an
\* @media block alike, starts from a fresh ParserState (a nested one holding
\* only the area) and an empty result map.
C17_Stateless ==
    /\ (runs.queue = <<>> /\ Len(runs.results) = 1 /\ out.status \in {"Ok", "Err"}) =>
          runs.results[1] = Returned
    /\ last.kind = "init" => stack = << Frame(DefaultState, input.toks) >>
    /\ last.kind = "MediaBlock" =>
          /\ Top.ps = [DefaultState EXCEPT !.area = Top.ps.area]
          /\ Top.result = EmptyMap

\* the second invocation on a stylesheet has returned a non-empty map, after
\* an invocation in between that returned something else
C17_Witness ==
    /\ runs.queue = <<>>
    /\ Len(runs.results) = 1
    /\ out.status = "Ok"
    /\ input.toks = ExTwoPrefixes
    /\ Returned = runs.results[1]
    /\ oracle # EmptyMap

RECURSIVE MediaDepthFrom(_, _)
\* the nesting depth of the @media blocks of a token sequence; pending holds
\* once `@media` has been read and its block has not
MediaDepthFrom(toks, pending) ==
    IF toks = <<>> THEN 0
    ELSE LET tok == Head(toks)
         IN  IF tok.kind = "AtKeyword"
             THEN MediaDepthFrom(Tail(toks), pending \/ tok.name = <<"m", "e", "d", "i", "a">>)
             ELSE IF tok.kind = "CurlyBracketBlock" /\ pending
             THEN LET inside == 1 + MediaDepthFrom(tok.body, FALSE)
                      after == MediaDepthFrom(Tail(toks), FALSE)
                  IN  IF inside > after THEN inside ELSE after
             ELSE MediaDepthFrom(Tail(toks), pending)

\* the recursion depth never exceeds the @media nesting depth of the source
\* (of an unconstrained input: of the tokens read so far, an @media block
\* taking an at-keyword and a curly block)
DepthBounded ==
    stack # <<>> =>
       IF input.free THEN 2 * (Len(stack) - 1) <= ntok
       ELSE Len(stack) - 1 <= MediaDepthFrom(input.toks, FALSE)

\* C18: termination.  For every finite token stream the scan reaches the
\* end of its input and every invocation returns; and the recursion depth
\* never exceeds the @media nesting depth of the source.
C18_Termination == <>(stack = <<>>) /\ []DepthBounded

\* the rule inside two nested @media blocks has been expanded, two
\* invocations above the first
C18_Witness ==
    /\ input.toks = ExNestedMedia
    /\ Len(stack) = 3
    /\ last.kind = "RuleBody"

\* a run of the command line that parsed a mode and an input, was given no
\* output path, and exited with status 0
SucceededWithoutOutputPath ==
    /\ cli.state = "exit"
    /\ cli.code = 0
    /\ cli.mode \in {Some("Paths"), Some("Content")}
    /\ cli.output_path = None

\* C19: default output location.  When no -o/--output option is given, a
\* successful run writes the JSON to ./grimoire/transmuted.json, in paths
\* mode and in content mode alike.
C19_DefaultOutput ==
    SucceededWithoutOutputPath => cli.file = Some(DefaultOutputFile)

\* the text matches comment_regex somewhere
HasComment(s) == \E i \in DOMAIN s : CommentAt(s, i)

RECURSIVE ConcatCleaned(_)
ConcatCleaned(paths) ==
    IF paths = <<>> THEN <<>>
    ELSE Cleaned(Head(paths)) \o ConcatCleaned(Tail(paths))

\* C20: read_and_clean_files returns the concatenation, in path order, of
\* the files' contents with every comment removed and every double quote
\* replaced by a single quote, so the text handed to the engine contains no
\* comment and no double quote.
C20_CleanedText ==
    files.state = "Ok" =>
       /\ files.all_contents = ConcatCleaned(files.paths)
       /\ ~HasComment(files.all_contents)
       /\ \A k \in DOMAIN files.all_contents : files.all_contents[k] # "\""

\* the one rule of the five that an Identifier fires in the ParserState ps
IdentRule(ps) ==
    IF ps.class_started /\ ps.current_class = <<>> THEN 1
    ELSE IF ps.focus_delim # <<>> THEN 2
    ELSE IF ps.effect_started THEN 3
    ELSE IF ps.current_class # <<>> THEN 4
    ELSE 5

\* C21: identifier precedence.  Every Ident token fires exactly one of the
\* five rules, in this order: (1) class_started and current_class empty: it
\* becomes current_class; (2) focus_delim non-empty: sep + focus_delim + "_" +
\* ident is appended to focus and focus_delim cleared; (3) effect_started:
\* the pseudo fragment; (4) current_class non-empty: "_" + ident appended;
\* (5) otherwise it becomes current_class.  With a combinator pending and
\* effect_started true, rule 2 fires and effect_started and colons stay.
C21_IdentifierPrecedence ==
    [][ last'.kind = "Ident" =>
          \E tok \in NextTokens :
             /\ tok.kind = "Ident"
             /\ LET pre == Top.ps
                    post == Top'.ps
                    ident == tok.name
                    sep == IF pre.focus = <<>> THEN <<>> ELSE <<"_">>
                IN  CASE IdentRule(pre) = 1 ->
                            post = [pre EXCEPT !.current_class = ident,
                                               !.class_started = FALSE]
                      [] IdentRule(pre) = 2 ->
                            /\ post = [pre EXCEPT
                                         !.focus = Append(@, sep \o pre.focus_delim
                                                             \o <<"_">> \o ident),
                                         !.focus_delim = <<>>]
                            /\ post.effect_started = pre.effect_started
                            /\ post.colons = pre.colons
                      [] IdentRule(pre) = 3 ->
                            post = [pre EXCEPT
                                      !.focus = Append(@, Join(CollapseColons(pre.colons))
                                                          \o ident),
                                      !.effects = Append(@, ident),
                                      !.effect_started = FALSE,
                                      !.colons = <<>>,
                                      !.current_class = post.current_class]
                      [] IdentRule(pre) = 4 ->
                            post = [pre EXCEPT !.focus = Append(@, <<"_">> \o ident)]
                      [] IdentRule(pre) = 5 ->
                            post = [pre EXCEPT !.current_class = ident] ]_vars

\* an identifier has been read with a combinator pending and a colon seen:
\* it went into focus as a combinator fragment, the colon still pending
C21_Witness ==
    /\ last.kind = "Ident"
    /\ last.pre.focus_delim # <<>>
    /\ last.pre.effect_started
    /\ ~(last.pre.class_started /\ last.pre.current_class = <<>>)
    /\ last.mid.effect_started
    /\ last.mid.colons # <<>>
    /\ last.mid.focus_delim = <<>>

\* C22: tag-selector fallback after a pseudo marker.  When an identifier is
\* consumed by the pseudo rule while current_class is still empty, the
\* fragment colons + ident is appended to focus and current_class becomes
\* that identifier.
C22_PseudoTagFallback ==
    [][ (last'.kind = "Ident" /\ IdentRule(Top.ps) = 3 /\ Top.ps.current_class = <<>>) =>
          \E tok \in NextTokens :
             /\ tok.kind = "Ident"
             /\ Top'.ps.focus =
                   Append(Top.ps.focus, Join(CollapseColons(Top.ps.colons)) \o tok.name)
             /\ Top'.ps.current_class = tok.name ]_vars

\* the raw prefixes under name, none if the name has no entry
PrefixesOf(ps, name) ==
    IF name \in DOMAIN ps.raw_classes_spells_map
    THEN ps.raw_classes_spells_map[name] ELSE <<>>

\* what C23 says of a `.` read in the ParserState ps and of an identifier
\* read next; fragmentCase(ps) tells when that identifier is claimed to go
\* into focus as a combinator fragment
ClassStartClaim(ps, fragmentCase(_)) ==
    LET post == DelimStep(ps, <<".">>)
        flushes == ps.current_class # <<>> /\ ps.focus_delim = <<>>
        qualifier == ReplaceSpaces(Trim(Join(ps.focus)))
        entry == IF ps.focus = <<>> THEN <<>> ELSE <<"{">> \o qualifier \o <<"}">>
    IN  /\ post.class_started
        /\ flushes =>
              /\ DOMAIN post.raw_classes_spells_map =
                    DOMAIN ps.raw_classes_spells_map \cup {ps.current_class}
              /\ \A name \in DOMAIN post.raw_classes_spells_map :
                    PrefixesOf(post, name) =
                       IF name = ps.current_class
                       THEN Append(PrefixesOf(ps, name), entry)
                       ELSE PrefixesOf(ps, name)
              /\ post.focus = <<>>
              /\ post.effects = <<>>
              /\ post.current_class = <<>>
        /\ ~flushes => post = [ps EXCEPT !.class_started = TRUE]
        /\ fragmentCase(ps) =>
              \A ident \in {<<"a">>, <<"s">>} :
                 LET next == IdentStep(post, ident)
                     sep == IF post.focus = <<>> THEN <<>> ELSE <<"_">>
                 IN  /\ next.current_class = post.current_class
                     /\ next.focus = Append(post.focus,
                                            sep \o ps.focus_delim \o <<"_">> \o ident)

CombinatorPending(ps) == ps.focus_delim # <<>>

CombinatorPendingAfterClass(ps) == ps.focus_delim # <<>> /\ ps.current_class # <<>>

\* C23 as stated: class-start delimiter.  On a `.`, if current_class is
\* non-empty and no combinator is pending, exactly one raw-prefix entry
\* ("{qualifier}" when focus is non-empty, else the empty string) is
\* appended under current_class, and focus, effects and current_class are
\* cleared; otherwise nothing is flushed or cleared.  In both cases
\* class_started is true afterwards, and with a combinator pending the
\* following identifier goes into focus as a combinator fragment instead of
\* becoming a class name.
C23_ClassStart_AsStated ==
    Running => ClassStartClaim(Top.ps, CombinatorPending)

\* C23, amended: ... and with a combinator pending and current_class
\* non-empty the following identifier goes into focus as a combinator
\* fragment instead of becoming a class name.
C23_ClassStart ==
    Running => ClassStartClaim(Top.ps, CombinatorPendingAfterClass)

\* a `.` has been read with a class name accumulated and a combinator
\* pending: nothing was flushed, and class_started is set
C23_Witness ==
    /\ last.kind = "Delim"
    /\ last.pre.current_class # <<>>
    /\ last.pre.focus_delim # <<>>
    /\ ~last.pre.class_started
    /\ last.mid = [last.pre EXCEPT !.class_started = TRUE]

\* the per-rule fields of ps are as in ParserState::default()
PerRuleFieldsClear(ps) ==
    /\ ps.raw_classes_spells_map = EmptyMap
    /\ ps.current_class = <<>>
    /\ ps.component_and_component_target_map = {}
    /\ ps.effects = <<>>
    /\ ps.focus = <<>>
    /\ ps.focus_delim = <<>>
    /\ ~ps.class_started

\* C24: per-rule reset.  After every curly-bracket block that is not an
\* @media body, expanded or skipped by the oracle, raw_classes_spells_map,
\* current_class, component_and_component_target_map, effects, focus and
\* focus_delim are empty and class_started is false; so a rule starts with
\* no prefix of the rule before it, and the declarations a rule is expanded
\* with are those of its own body.
C24_PerRuleReset ==
    /\ (last.kind \in {"RuleBody", "RuleSkip"} /\ stack # <<>>) =>
          /\ PerRuleFieldsClear(Top.ps)
          /\ PerRuleFieldsClear(Top.mark)
    /\ Running => Top.ps.component_and_component_target_map = {}
    /\ last.kind = "RuleBody" =>
          /\ last.pre.component_and_component_target_map = {}
          /\ DOMAIN last.gen = DOMAIN last.mid.raw_classes_spells_map
          /\ \A name \in DOMAIN last.gen : \A spell \in last.gen[name] :
                \E i \in DOMAIN last.mid.raw_classes_spells_map[name] :
                   \E d \in last.mid.component_and_component_target_map :
                      spell = last.mid.raw_classes_spells_map[name][i] \o d

\* a rule with a qualifier and a declaration has been expanded, and the scan
\* goes on with the per-rule fields cleared
C24_Witness ==
    /\ last.kind = "RuleBody"
    /\ stack # <<>>
    /\ last.pre.current_class # <<>>
    /\ last.pre.focus # <<>>
    /\ last.mid.raw_classes_spells_map # EmptyMap
    /\ last.mid.component_and_component_target_map # {}
    /\ Top.ps.focus = <<>>

\* C25: after a rule body closes, the whole ParserState equals a fresh one
\* seeded with the same area: besides the per-rule fields, effect_started is
\* false, colons is empty and started_media_pos is unset.
C25_FreshStateAfterRule ==
    (last.kind \in {"RuleBody", "RuleSkip"} /\ stack # <<>>) =>
       Top.ps = [DefaultState EXCEPT !.area = last.pre.area]

\* C26: identifiers of an @media prelude (between the `media` at-keyword and
\* the block's opening brace, as in `screen and`) do not change the selector
\* state: current_class and focus at the caller level stay as they were, and
\* no entry of the result map and no qualifier is derived from a prelude
\* identifier, as in
\* `@media screen and (x) { .a { color: blue; } } .b { color: red; }`.
C26_PreludeIdentifiers ==
    /\ (last.kind = "Ident" /\ last.pre.started_media_pos # None) =>
          /\ last.mid.current_class = last.pre.current_class
          /\ last.mid.focus = last.pre.focus
    /\ (input.toks = ExMediaScreen /\ Finished) =>
          /\ DOMAIN out.processed_css[1] = {<<"a">>, <<"b">>}
          /\ out.processed_css[1][<<"b">>] = {<<"c", "o", "l", "o", "r", "=", "r", "e", "d">>}

\* the area the running invocation was seeded with: the one its caller held
\* when it made the call, none at the top level
SeedArea == IF Len(stack) > 1 THEN stack[Len(stack) - 1].ps.area ELSE None

\* C27: the area of a recursion level is constant over that level's scan.
\* In an invocation seeded with area A every rule body of that level, also
\* one that follows a nested @media block inside it, is flushed with area A.
C27_AreaConstantPerLevel ==
    (last.kind = "RuleBody" /\ stack # <<>>) =>
       /\ last.pre.area = SeedArea
       /\ LET prefixes == last.mid.raw_classes_spells_map[last.pre.current_class]
              base == BaseRawSpell(last.pre.focus)
          IN  prefixes[Len(prefixes)] =
                 IF SeedArea = None THEN base ELSE SeedArea[1] \o <<"_", "_">> \o base

\* C28: the nested invocation for an @media block starts from a fresh
\* ParserState seeded only with that block's own area: nothing of the
\* caller's current_class, focus, raw prefixes or declarations is visible
\* to it, and for a rule inside two nested @media blocks, as in
\* `@media (x) { @media (y) { .a { color: blue; } } .b { color: red; } }`,
\* the spell prefix holds only the innermost condition.
C28_NestedStateFresh ==
    /\ last.kind = "MediaBlock" =>
          /\ Top.ps = [DefaultState EXCEPT !.area = last.mid.area]
          /\ Top.result = EmptyMap
          /\ last.mid.area # None
          /\ (input.toks = ExNestedMedia /\ Len(stack) = 3) =>
                Top.ps.area = Some(<<"(", "y", ")">>)
    /\ (input.toks = ExNestedMedia /\ last.kind = "RuleBody" /\ Len(stack) = 3) =>
          last.gen = Single(<<"a">>, {<<"(", "y", ")", "_", "_", "c", "o", "l", "o", "r", "=", "b", "l", "u", "e">>})
    /\ (input.toks = ExNestedMedia /\ Finished) =>
          out.processed_css[1][<<"a">>] =
             {<<"(", "y", ")", "_", "_", "c", "o", "l", "o", "r", "=", "b", "l", "u", "e">>}

\* an @media block inside an @media block has been entered: the invocation
\* two levels down starts with the inner condition alone
C28_Witness ==
    /\ last.kind = "MediaBlock"
    /\ Len(stack) = 3
    /\ last.pre.area = Some(<<"(", "x", ")">>)
    /\ Top.ps.area = Some(<<"(", "y", ")">>)

\* ps and qs agree on every field but area and started_media_pos
SameButMedia(ps, qs) ==
    qs = [ps EXCEPT !.area = qs.area, !.started_media_pos = qs.started_media_pos]

\* C29: frame of the @media branch.  Processing an @media block changes, at
\* the caller level, only area, started_media_pos and the running result
\* map; the caller's current_class, focus, effects, focus_delim,
\* class_started, effect_started, colons, raw_classes_spells_map and
\* component_and_component_target_map are unchanged: when the block is
\* entered, while the nested invocation runs, and when it returns.
C29_MediaFrame ==
    [][ /\ last'.kind = "MediaBlock" =>
              /\ SameButMedia(Top.ps, stack'[Len(stack)].ps)
              /\ stack'[Len(stack)].result = Top.result
        /\ \A i \in 1..(Len(stack) - 1) :
              i <= Len(stack') =>
                 IF i = Len(stack')
                 THEN /\ last'.kind = "MediaReturn"
                      /\ SameButMedia(stack[i].ps, stack'[i].ps)
                      /\ \A name \in DOMAIN stack[i].result :
                            /\ name \in DOMAIN stack'[i].result
                            /\ stack[i].result[name] \subseteq stack'[i].result[name]
                 ELSE /\ stack'[i].ps = stack[i].ps
                      /\ stack'[i].result = stack[i].result ]_vars

\* an @media block has been processed while the caller held a class name:
\* the caller goes on with that class name, its area cleared
C29_Witness ==
    /\ last.kind = "MediaReturn"
    /\ last.pre.current_class # <<>>
    /\ last.pre.area # None
    /\ Top.ps.current_class = last.pre.current_class
    /\ Top.ps.area = None

\* the spells of name in the map m, none if m has no entry for it
SpellsUnder(m, name) == IF name \in DOMAIN m THEN m[name] ELSE {}

\* the map new is the map old with the map added unioned in, name by name
UnionOf(old, added, new) ==
    /\ DOMAIN new = DOMAIN old \cup DOMAIN added
    /\ \A name \in DOMAIN new :
          new[name] = SpellsUnder(old, name) \cup SpellsUnder(added, name)

\* C30: cross-rule accumulation.  The running result map of an invocation
\* only grows (a spell once present under a name is never removed or
\* replaced): every rule body and every nested @media invocation adds its
\* map to it by union, no other step changes it, and the map returned is the
\* one so accumulated, so the final entry of a name is the union of the
\* spell sets contributed for that name.
C30_Accumulation ==
    [][ /\ \A i \in DOMAIN stack :
              i \in DOMAIN stack' =>
                 IF i = Len(stack') /\ last'.kind \in {"RuleBody", "MediaReturn"}
                 THEN UnionOf(stack[i].result, last'.gen, stack'[i].result)
                 ELSE stack'[i].result = stack[i].result
        /\ last'.kind = "MediaBlock" => Top'.result = EmptyMap
        /\ last'.kind = "Return" => out'.processed_css = Some(Top.result) ]_vars

\* a rule body has added spells to a name that already had others
C30_Witness ==
    /\ last.kind = "RuleBody"
    /\ stack # <<>>
    /\ \E name \in DOMAIN last.gen :
          /\ last.gen[name] # {}
          /\ last.gen[name] \subseteq Top.result[name]
          /\ Top.result[name] # last.gen[name]

\* C31: declaration extraction.  For each semicolon-terminated
\* `property: value;` of a rule body, trim(property) ++ "=" ++ trim(value)
\* with every space replaced by an underscore is inserted into
\* component_and_component_target_map; a body repeating a declaration
\* yields it once; `.a { p: v:w; }` yields p=v:w.
C31_DeclarationExtraction ==
    /\ \A c \in BasicNames, ds \in DeclSeqs :
          (input.toks = BasicRule(c, ds) /\ last.kind = "RuleBody") =>
             /\ last.mid.component_and_component_target_map = ExpectedSpells(ds)
             /\ Cardinality(ExpectedSpells(ds)) = Cardinality(Range(ds))
    /\ (input.toks = ExColonValue /\ last.kind = "RuleBody") =>
          last.mid.component_and_component_target_map = { <<"p", "=", "v", ":", "w">> }

\* C32: whenever a Semicolon is processed inside a rule body, colon_pos is
\* not before start_decl_pos, so the slice start_decl_pos..colon_pos is a
\* valid range and the declaration scan of no rule body panics.
C32_ValidDeclarationSlice ==
    last.kind = "RuleBody" => out.status # "Panic"

\* C33: when the oracle recognizes the class name current at the opening of a
\* rule body, the whole rule is discarded: the step merges nothing into the
\* result map, so no name flushed earlier in the rule (at a comma or at a
\* class start) gets an entry from it, and the raw prefixes of those names
\* are cleared with the rest of the per-rule state.
C33_SkippedRuleDiscarded ==
    [][ last'.kind = "RuleSkip" =>
           /\ last'.asked = << Top.ps.current_class >>
           /\ Len(stack') = Len(stack)
           /\ Top'.result = Top.result
           /\ last'.gen = EmptyMap
           /\ Top'.ps.raw_classes_spells_map = EmptyMap
           /\ PerRuleFieldsClear(Top'.ps) ]_vars

\* a rule has been skipped whose earlier selectors had raw prefixes; they
\* are gone and the result map has no entry
C33_Witness ==
    /\ last.kind = "RuleSkip"
    /\ stack # <<>>
    /\ DOMAIN last.pre.raw_classes_spells_map = { <<"a">>, <<"b">> }
    /\ last.pre.current_class = <<"s">>
    /\ Top.ps.raw_classes_spells_map = EmptyMap
    /\ Top.result = EmptyMap

RECURSIVE LeadingColons(_)
\* the number of colons s begins with
LeadingColons(s) ==
    IF s # <<>> /\ Head(s) = ":" THEN 1 + LeadingColons(Tail(s)) ELSE 0

\* the step observed is the pseudo identifier rule or a consumed function
\* start: the only ones that clear effect_started
PseudoFragmentAppended ==
    /\ last.kind \in {"Ident", "Function"}
    /\ last.pre.effect_started
    /\ ~last.mid.effect_started

\* C34: colon collapse.  The fragment appended to focus by the pseudo
\* identifier rule or by a consumed function start begins with exactly one
\* or exactly two colons, followed by the name: one for a run of one Colon
\* token, two for a run of two, and exactly two for a run of three or more.
C34_ColonCollapse ==
    PseudoFragmentAppended =>
       /\ Len(last.mid.focus) = Len(last.pre.focus) + 1
       /\ LET fragment == last.mid.focus[Len(last.mid.focus)]
              run == Len(last.pre.colons)
          IN  /\ LeadingColons(fragment) \in {1, 2}
              /\ LeadingColons(fragment) = (IF run > 2 THEN 2 ELSE run)
              /\ last.mid.effects # <<>>
              /\ LET name == last.mid.effects[Len(last.mid.effects)]
                     n == LeadingColons(fragment)
                 IN  SubSeq(fragment, n + 1, n + Len(name)) = name

\* the identifier after a run of three Colon tokens has been appended as
\* "::hover"
C34_Witness ==
    /\ PseudoFragmentAppended
    /\ Len(last.pre.colons) = 3
    /\ last.mid.focus = << <<":", ":", "h", "o", "v", "e", "r">> >>

\* effect_started is set exactly when colons is not empty
PendingIffColons(ps) == ps.effect_started <=> ps.colons # <<>>

\* C35: in every reachable ParserState effect_started is true if and only if
\* colons is not empty.  A Colon token sets the one and extends the other;
\* the pseudo identifier rule and a consumed function start clear both; no
\* other step of an invocation changes either, and a nested invocation
\* starts with both clear.
C35_PseudoPendingIffColons ==
    [][ /\ \A i \in DOMAIN stack : PendingIffColons(stack[i].ps)
        /\ \A i \in DOMAIN stack' : PendingIffColons(stack'[i].ps)
        /\ \A i \in DOMAIN stack' :
              i \notin DOMAIN stack =>
                 ~stack'[i].ps.effect_started /\ stack'[i].ps.colons = <<>>
        /\ \A i \in DOMAIN stack :
              i \in DOMAIN stack' =>
                 LET a == stack[i].ps
                     b == stack'[i].ps
                 IN  (a.effect_started # b.effect_started \/ a.colons # b.colons) =>
                        /\ i = Len(stack)
                        /\ i = Len(stack')
                        /\ \/ /\ last'.kind = "Colon"
                              /\ b.effect_started
                              /\ b.colons = Append(a.colons, <<":">>)
                           \/ /\ last'.kind \in {"Ident", "Function"}
                              /\ a.effect_started
                              /\ ~b.effect_started
                              /\ b.colons = <<>>
                              /\ Len(b.focus) = Len(a.focus) + 1 ]_vars

\* a function start has consumed a run of two colons: both fields are clear
C35_Witness ==
    /\ last.kind = "Function"
    /\ last.pre.effect_started
    /\ Len(last.pre.colons) = 2
    /\ stack # <<>>
    /\ ~Top.ps.effect_started
    /\ Top.ps.colons = <<>>

\* a and b agree on every field of the ParserState but those of the set except
SameBut(a, b, except) ==
    \A f \in DOMAIN a : f \notin except => a[f] = b[f]

\* C36: universal selector.  On a `*` delimiter, if focus is empty, `*`
\* becomes the only (leading) fragment of focus and current_class becomes
\* `*` when it was empty, focus_delim being unchanged; if focus is not empty,
\* focus_delim becomes `*` and focus and current_class are unchanged.  No
\* other field changes in either case.
C36_UniversalSelector ==
    Running =>
       LET a == Top.ps
           b == DelimStep(a, <<"*">>)
       IN  IF a.focus = <<>>
           THEN /\ b.focus = << <<"*">> >>
                /\ b.current_class =
                      (IF a.current_class = <<>> THEN <<"*">> ELSE a.current_class)
                /\ b.focus_delim = a.focus_delim
                /\ SameBut(a, b, {"focus", "current_class"})
           ELSE /\ b.focus_delim = <<"*">>
                /\ b.focus = a.focus
                /\ b.current_class = a.current_class
                /\ SameBut(a, b, {"focus_delim"})

\* `*` has been read after a leading `*`: the first is the focus and the
\* class name, the second the pending combinator
C36_Witness ==
    /\ last.kind = "Delim"
    /\ last.pre.focus = << <<"*">> >>
    /\ last.pre.current_class = <<"*">>
    /\ last.pre.focus_delim = <<>>
    /\ last.mid = [last.pre EXCEPT !.focus_delim = <<"*">>]
    /\ stack # <<>>
    /\ Top.ps = last.mid

\* tok has no transition in the state ps: a function start while no pseudo is
\* pending, an at-keyword other than media, a delimiter outside . : :: > + ~ *,
\* or a token of any kind without an arm of its own
NoTransition(tok, ps) ==
    \/ tok.kind = "Function" /\ ~ps.effect_started
    \/ tok.kind = "AtKeyword" /\ tok.name # <<"m", "e", "d", "i", "a">>
    \/ /\ tok.kind = "Delim"
       /\ tok.name \notin {<<".">>, <<":">>, <<":", ":">>, <<">">>, <<"+">>, <<"~">>, <<"*">>}
    \/ tok.kind \notin {"Ident", "AtKeyword", "Delim", "Colon", "Comma",
                        "SquareBracketBlock", "CurlyBracketBlock", "Function"}

\* C37: tokens without a transition leave everything unchanged.  A step that
\* reads a function start while effect_started is false, an at-keyword other
\* than media, a delimiter outside . : :: > + ~ *, or a token of any other
\* kind (parenthesis block, number, string, hash, stray closing bracket)
\* changes neither the ParserState nor the result map of the invocation, and
\* neither pushes nor ends an invocation.
C37_IgnoredTokens ==
    [][ ( /\ Running
          /\ ntok' = ntok + 1
          /\ \E tok \in NextTokens : tok.kind = last'.kind
          /\ \A tok \in NextTokens : tok.kind = last'.kind => NoTransition(tok, Top.ps) )
        => /\ Len(stack') = Len(stack)
           /\ Top'.ps = Top.ps
           /\ Top'.result = Top.result
           /\ \A i \in DOMAIN stack : i < Len(stack) => stack'[i] = stack[i]
           /\ out' = out
           /\ last'.mid = last'.pre
           /\ last'.gen = EmptyMap ]_vars

\* `@x .a & f(x) (y) 7 "t" #h }` has been read: the state is the one `.a`
\* alone leaves, and the result map is empty
C37_Witness ==
    /\ input.toks = ExIgnored
    /\ last.kind = "CloseCurlyBracket"
    /\ stack # <<>>
    /\ Top.ps = [DefaultState EXCEPT !.current_class = <<"a">>]
    /\ Top.result = EmptyMap

RECURSIVE SplitLoop(_, _, _)
\* the pieces of s between single spaces: cur the piece being read, done the
\* pieces before it
SplitLoop(s, cur, done) ==
    IF s = <<>> THEN Append(done, cur)
    ELSE IF Head(s) = " " THEN SplitLoop(Tail(s), <<>>, Append(done, cur))
    ELSE SplitLoop(Tail(s), Append(cur, Head(s)), done)

\* s split on single spaces; the empty string gives one empty piece
SplitOnSpaces(s) == SplitLoop(s, <<>>, <<>>)

\* no spell of the map m holds a space
NoSpaceInSpells(m) ==
    \A name \in DOMAIN m : \A spell \in m[name] : \A i \in DOMAIN spell : spell[i] # " "

\* C38: no spell of the result map of any invocation holds a space (prefix,
\* area and declaration have their spaces replaced by underscores), so
\* the oneliner of an output entry, split on single spaces, gives back exactly
\* the entry's spells array.
C38_OnelinerSplitsBack ==
    /\ \A i \in DOMAIN stack : NoSpaceInSpells(stack[i].result)
    /\ (Finished /\ out.status = "Ok") =>
          /\ NoSpaceInSpells(out.processed_css[1])
          /\ \A class \in out.scrolls :
                class.oneliner # None => SplitOnSpaces(class.oneliner[1]) = class.spells

====
